---- MODULE Spec2Model ----
(***************************************************************************)
(* Model of the streaming ingestion pipeline of Live-MoCap-For-Blender:    *)
(* MocapReceiver (src/live_mocap_tool/data_stream.py).  One receiver       *)
(* object, the listener threads its start() spawns, the main thread that   *)
(* calls start(), stop() and get_latest_data(), and the TCP peer as the    *)
(* environment.  Program counters are named after the source line the      *)
(* thread is about to execute.                                             *)
(***************************************************************************)
EXTENDS Integers, Sequences, FiniteSets

\* ---------------------------------------------------------------- bounds
\* What the environment may do is bounded scenario by scenario (see Scenarios).
MaxStarts == 2      \* start() calls in a lifecycle scenario (listener threads 1..MaxStarts)
MaxStops == 2       \* stop() calls in a lifecycle scenario
MaxFails == 5       \* failed connect attempts in a backoff scenario
HandoffBytes == 4   \* bytes the peer sends in a handoff scenario
FramingBytes == 6   \* bytes the peer sends in a framing scenario
MaxChunk == 3       \* largest recv() chunk

\* ------------------------------------------------------- program constants
max_queue_size == 1       \* __init__ default
DELAY_FLOOR == 1          \* reconnect_delay = 1.0
DELAY_CEILING == 8        \* min(reconnect_delay * 2, 8.0)

STATUS_DISCONNECTED == "DISCONNECTED"
STATUS_CONNECTING == "CONNECTING"
STATUS_CONNECTED == "CONNECTED"
STATUS_RECONNECTING == "RECONNECTING"
STATUS_ERROR == "ERROR"

Threads == 1..MaxStarts

NL == "\n"
\* The characters the peer may send: a digit, a letter that is no JSON
\* token, and the line terminator.
Chars == {"1", "x", NL}

\* Python's None for a frame, and the frames json.loads produces: the decoded
\* value together with its position in decode order.
None == [id |-> 0, val |-> 0]
JSONDecodeError == -1

VARIABLES
  running, thread, _status, data_queue,             \* fields of MocapReceiver
  pc, sock, reconnect_delay, buffer, mocap_frame, e, \* locals of each listener thread
  mpc, latest,                                      \* the main thread
  startsLeft, stopsLeft, bytesLeft, failsLeft, drive, \* what the environment may still do
  nDecoded, stream, decoded, failures,              \* history: framing
  nfail, slept,                                     \* history: backoff
  partial,                                          \* history: a peer close cut a message
  putsSince, lastPut, clean, lastCall,              \* history: handoff
  stopped,                                          \* history: stop() was called since the thread was spawned
  opc,                                              \* a second thread that calls stop()
  CALIBRATION_OFFSETS,                              \* mocap_logic: the calibration store
  target_armature, rotation_quaternion, bone_map,   \* the scene: target object, its pose, the bone map
  call,                                             \* history: the last call into mocap_logic
  location, mocap_mode,                             \* the scene: location of the root bone, props.mocap_mode
  feed,                                             \* the frames the drive loop may be handed
  bone_length,                                      \* the scene: bone.length of each pose bone
  is_running, data_active,                          \* props.is_running, props.data_active
  MOCAP_RECEIVER,                                   \* operators: the receiver in use, 0 for None
  handlers,                                         \* the modal handlers installed, each with its timer
  tpc                                               \* the operator call in progress and its handler

rcvVars == <<running, thread, _status, data_queue>>
locVars == <<pc, sock, reconnect_delay, buffer, mocap_frame, e>>
mainVars == <<mpc, latest>>
envVars == <<startsLeft, stopsLeft, bytesLeft, failsLeft, drive>>
frameHist == <<nDecoded, stream, decoded, failures>>
backoffHist == <<nfail, slept, partial>>
handoffHist == <<putsSince, lastPut, clean, lastCall>>
sceneVars == <<location, mocap_mode, feed, bone_length, is_running, data_active,
               MOCAP_RECEIVER, handlers, tpc>>
calVars == <<CALIBRATION_OFFSETS, target_armature, rotation_quaternion, bone_map, call, sceneVars>>
extVars == <<stopped, opc, calVars>>
vars == <<rcvVars, locVars, mainVars, envVars, frameHist, backoffHist, handoffHist, extVars>>

\* ------------------------------------------------------------ pure helpers
Min(a, b) == IF a <= b THEN a ELSE b

\* '\n' in buffer
HasNL(s) == \E i \in 1..Len(s) : s[i] = NL

FirstNL(s) == CHOOSE i \in 1..Len(s) : s[i] = NL /\ \A j \in 1..(i - 1) : s[j] # NL

\* buffer.split('\n', 1) when the buffer holds a newline: <<line, rest>>
split(s) == <<SubSeq(s, 1, FirstNL(s) - 1), SubSeq(s, FirstNL(s) + 1, Len(s))>>

\* buffer.split('\n', 1)[-1]: the part after the first newline, or the whole
\* buffer when it holds none
splitLast(s) == IF HasNL(s) THEN split(s)[2] ELSE s

RECURSIVE lstrip(_)
lstrip(s) == IF s # <<>> /\ s[1] = " " THEN lstrip(Tail(s)) ELSE s

RECURSIVE rstrip(_)
rstrip(s) == IF s # <<>> /\ s[Len(s)] = " " THEN rstrip(SubSeq(s, 1, Len(s) - 1)) ELSE s

\* str.strip()
strip(s) == rstrip(lstrip(s))

RECURSIVE int(_)
int(w) == IF w = <<>> THEN 0 ELSE 10 * int(SubSeq(w, 1, Len(w) - 1)) + 1

\* json.loads on a line over Chars: surrounding blanks are skipped, and what
\* is left must be one JSON value, here a number written with the digit 1.
json_loads(line) ==
  LET w == strip(line)
  IN IF w # <<>> /\ \A i \in 1..Len(w) : w[i] = "1" THEN int(w) ELSE JSONDecodeError

\* Mutant of full: the comparison is off by one, a queue holding
\* max_queue_size items is not yet full.
full_OffByOne(q) == 0 < max_queue_size /\ max_queue_size < Len(q)

\* Queue.full()
full(q) == 0 < max_queue_size /\ max_queue_size <= Len(q)

\* One pass of the body of `while '\n' in buffer`, on a buffer that holds a
\* newline: what the pass found and the buffer it leaves.
LineStep(buf) ==
  LET line == split(buf)[1]
      rest == split(buf)[2]
  IN IF strip(line) = <<>>
       THEN [kind |-> "blank", buffer |-> rest, val |-> 0]
       ELSE IF json_loads(line) # JSONDecodeError
              THEN [kind |-> "frame", buffer |-> rest, val |-> json_loads(line)]
              ELSE [kind |-> "invalid", buffer |-> splitLast(rest), val |-> 0]

\* Mutant of LineTarget: an invalid line is handled like a socket error.
LineTarget_Teardown(kind) ==
  IF kind = "frame" THEN "L136" ELSE IF kind = "invalid" THEN "L154" ELSE "L127"

\* Where the pass goes next: a decoded frame is handed to the queue (line
\* 136); a blank line (continue, line 130) and an invalid one (the except
\* clause, lines 141-144) go back to the loop test of line 127.
LineTarget(kind) == IF kind = "frame" THEN "L136" ELSE "L127"

ChunkSeqs == UNION {[1..n -> Chars] : n \in 1..MaxChunk}

\* ------------------------------------------------------------ mocap_logic
\* A mathutils.Quaternion is <<w, x, y, z>>.  The rotations explored are the
\* eight unit quaternions with integer components: a group whose product
\* does not commute.
Identity == <<1, 0, 0, 0>>
Axes == {<<1, 0, 0, 0>>, <<0, 1, 0, 0>>, <<0, 0, 1, 0>>, <<0, 0, 0, 1>>}
Quats == Axes \cup {<<-q[1], -q[2], -q[3], -q[4]>> : q \in Axes}

\* a @ b: the Hamilton product
matmul(a, b) ==
  << a[1] * b[1] - a[2] * b[2] - a[3] * b[3] - a[4] * b[4],
     a[1] * b[2] + a[2] * b[1] + a[3] * b[4] - a[4] * b[3],
     a[1] * b[3] - a[2] * b[4] + a[3] * b[1] + a[4] * b[2],
     a[1] * b[4] + a[2] * b[3] - a[3] * b[2] + a[4] * b[1] >>

\* Quaternion.inverted(): the conjugate divided by the squared length (which
\* is 1 for every quaternion of Quats); a zero quaternion is left as it is
inverted(q) ==
  LET f == q[1] * q[1] + q[2] * q[2] + q[3] * q[3] + q[4] * q[4]
  IN IF f = 0 THEN q ELSE <<q[1] \div f, (-q[2]) \div f, (-q[3]) \div f, (-q[4]) \div f>>

\* rotation_data as it arrives in a frame: a quaternion, or a list that is
\* empty or too short
RotationData == Quats \cup {<<>>, <<1, 0, 0>>}

\* The pose bones of the armature in the scene, and the Blender bone names a
\* mapping may give: those and the name of no bone.
PoseBones == {"mixamorig:Hips"}
BlenderNames == PoseBones \cup {"mixamorig:Tail"}
MocapNames == {"Hips", "Spine"}

\* The results of get_bone_map_from_properties(): joint name -> bone name
BoneMaps == UNION {[D -> BlenderNames] : D \in SUBSET MocapNames}

\* props.target_armature: no object, a mesh, or the armature, which is in
\* object or pose mode and for which bpy.ops.object.mode_set succeeds or
\* raises RuntimeError
NoObject == [type |-> "NONE", mode |-> "OBJECT", posable |-> FALSE]
Objects ==
  {NoObject, [type |-> "MESH", mode |-> "OBJECT", posable |-> FALSE]}
    \cup {[type |-> "ARMATURE", mode |-> m, posable |-> c] :
             m \in {"OBJECT", "POSE"}, c \in BOOLEAN}

\* CALIBRATION_OFFSETS = {}
NoOffsets == [b \in {} |-> Identity]

NoCall == [op |-> "none", bone |-> "", data |-> <<>>, ret |-> "", rep |-> FALSE]

\* operators as loaded (line 8: MOCAP_RECEIVER = None): no session was
\* started, no modal handler is installed and no operator is running
NoSession ==
  /\ is_running = FALSE
  /\ data_active = FALSE
  /\ MOCAP_RECEIVER = 0
  /\ handlers = {}
  /\ tpc = <<"idle", 0>>

\* mocap_logic as loaded, with nothing selected: the state of the scene in
\* the specifications of the receiver, which never call into mocap_logic
CalIdle ==
  /\ CALIBRATION_OFFSETS = NoOffsets
  /\ target_armature = NoObject
  /\ rotation_quaternion = [b \in PoseBones |-> Identity]
  /\ bone_map = [j \in {} |-> ""]
  /\ call = NoCall
  /\ location = [b \in PoseBones |-> <<0, 0, 0>>]
  /\ mocap_mode = "WHOLE_BODY"
  /\ feed = {}
  /\ bone_length = [b \in PoseBones |-> 300]
  /\ NoSession

\* ---------------------------------------------------------------- initial
InitReceiver ==
  /\ running = FALSE
  /\ thread = 0
  /\ _status = STATUS_DISCONNECTED
  /\ data_queue = <<>>
  /\ pc = [t \in Threads |-> "unborn"]
  /\ sock = [t \in Threads |-> "None"]
  /\ reconnect_delay = [t \in Threads |-> DELAY_FLOOR]
  /\ buffer = [t \in Threads |-> <<>>]
  /\ mocap_frame = [t \in Threads |-> None]
  /\ e = [t \in Threads |-> ""]
  /\ mpc = "idle"
  /\ latest = None
  /\ nDecoded = 0
  /\ stream = [t \in Threads |-> <<>>]
  /\ decoded = [t \in Threads |-> <<>>]
  /\ failures = [t \in Threads |-> 0]
  /\ nfail = [t \in Threads |-> 0]
  /\ slept = [t \in Threads |-> 0]
  /\ partial = [t \in Threads |-> FALSE]
  /\ putsSince = 0
  /\ lastPut = None
  /\ clean = FALSE
  /\ lastCall = [called |-> FALSE, ret |-> None, clean |-> FALSE, puts |-> 0,
                 last |-> None, dec |-> 0, prev |-> 0]
  /\ stopped = [t \in Threads |-> FALSE]
  /\ opc = "idle"

\* The environments explored: how often the main thread starts and stops the
\* receiver, how many bytes the peer sends, how many connect attempts it lets
\* fail, and whether the main thread polls get_latest_data().
Scenarios ==
  { [starts |-> MaxStarts, stops |-> MaxStops, bytes |-> 0, fails |-> 1, drive |-> FALSE],
    [starts |-> 1, stops |-> 0, bytes |-> 0, fails |-> MaxFails, drive |-> FALSE],
    [starts |-> 1, stops |-> 1, bytes |-> HandoffBytes, fails |-> 0, drive |-> TRUE],
    [starts |-> 1, stops |-> 0, bytes |-> FramingBytes, fails |-> 0, drive |-> FALSE] }

Init ==
  /\ InitReceiver
  /\ CalIdle
  /\ \E s \in Scenarios :
       /\ startsLeft = s.starts
       /\ stopsLeft = s.stops
       /\ bytesLeft = s.bytes
       /\ failsLeft = s.fails
       /\ drive = s.drive

\* ------------------------------------------------------- listener thread
\* _run_socket_listener, one action for each step that reads or writes state
\* shared with another thread or waits for the peer; the thread-local work
\* between two such steps belongs to the step before it.

\* line 94: while self.running  (sock = None at line 96)
OuterLoop(t) ==
  /\ pc[t] = "L94"
  /\ pc' = [pc EXCEPT ![t] = IF running THEN "L97" ELSE "L163"]
  /\ sock' = [sock EXCEPT ![t] = "None"]
  /\ UNCHANGED <<extVars, rcvVars, reconnect_delay, buffer, mocap_frame, e, mainVars, envVars,
                 frameHist, backoffHist, handoffHist>>

\* line 97: while self.running and not sock  (sock is None whenever control is here)
ConnectLoop(t) ==
  /\ pc[t] = "L97"
  /\ pc' = [pc EXCEPT ![t] = IF running THEN "L98" ELSE "L108"]
  /\ UNCHANGED <<extVars, rcvVars, sock, reconnect_delay, buffer, mocap_frame, e, mainVars, envVars,
                 frameHist, backoffHist, handoffHist>>

\* line 98: if self.status != STATUS_CONNECTING
ReadStatus(t) ==
  /\ pc[t] = "L98"
  /\ pc' = [pc EXCEPT ![t] = IF _status # STATUS_CONNECTING THEN "L99" ELSE "L73"]
  /\ UNCHANGED <<extVars, rcvVars, sock, reconnect_delay, buffer, mocap_frame, e, mainVars, envVars,
                 frameHist, backoffHist, handoffHist>>

\* line 99: self.status = STATUS_RECONNECTING
MarkReconnecting(t) ==
  /\ pc[t] = "L99"
  /\ _status' = STATUS_RECONNECTING
  /\ pc' = [pc EXCEPT ![t] = "L73"]
  /\ UNCHANGED <<extVars, running, thread, data_queue, sock, reconnect_delay, buffer, mocap_frame, e,
                 mainVars, envVars, frameHist, backoffHist, handoffHist>>

\* _connect_socket, lines 66-73: a socket is created, self.status = STATUS_CONNECTING
MarkConnecting(t) ==
  /\ pc[t] = "L73"
  /\ _status' = STATUS_CONNECTING
  /\ pc' = [pc EXCEPT ![t] = "L74"]
  /\ UNCHANGED <<extVars, running, thread, data_queue, sock, reconnect_delay, buffer, mocap_frame, e,
                 mainVars, envVars, frameHist, backoffHist, handoffHist>>

\* line 74: sock.connect succeeds; a new connection, nothing received on it yet
ConnectOk(t) ==
  /\ pc[t] = "L74"
  /\ pc' = [pc EXCEPT ![t] = "L78"]
  /\ stream' = [stream EXCEPT ![t] = <<>>]
  /\ decoded' = [decoded EXCEPT ![t] = <<>>]
  /\ failures' = [failures EXCEPT ![t] = 0]
  /\ UNCHANGED <<extVars, rcvVars, sock, reconnect_delay, buffer, mocap_frame, e, mainVars, envVars,
                 nDecoded, backoffHist, handoffHist>>

\* line 74: sock.connect raises socket.error (refused, unreachable, timed out);
\* line 84 closes the socket
ConnectFail(t) ==
  /\ pc[t] = "L74"
  /\ failsLeft > 0
  /\ failsLeft' = failsLeft - 1
  /\ pc' = [pc EXCEPT ![t] = "L85"]
  /\ UNCHANGED <<extVars, rcvVars, sock, reconnect_delay, buffer, mocap_frame, e, mainVars,
                 startsLeft, stopsLeft, bytesLeft, drive, frameHist, backoffHist, handoffHist>>

\* lines 78-80 and 106: self.status = STATUS_CONNECTED, return sock,
\* reconnect_delay = 1.0; the loop test of line 97 then fails on `not sock`
MarkConnected(t) ==
  /\ pc[t] = "L78"
  /\ _status' = STATUS_CONNECTED
  /\ sock' = [sock EXCEPT ![t] = "open"]
  /\ reconnect_delay' = [reconnect_delay EXCEPT ![t] = DELAY_FLOOR]
  /\ nfail' = [nfail EXCEPT ![t] = 0]
  /\ pc' = [pc EXCEPT ![t] = "L108"]
  /\ UNCHANGED <<extVars, running, thread, data_queue, buffer, mocap_frame, e, mainVars, envVars,
                 frameHist, slept, partial, handoffHist>>

\* lines 85-86: self.status = STATUS_RECONNECTING, return None
MarkConnectFailed(t) ==
  /\ pc[t] = "L85"
  /\ _status' = STATUS_RECONNECTING
  /\ pc' = [pc EXCEPT ![t] = "L103"]
  /\ UNCHANGED <<extVars, running, thread, data_queue, sock, reconnect_delay, buffer, mocap_frame, e,
                 mainVars, envVars, frameHist, backoffHist, handoffHist>>

\* Mutant of NextDelay: the doubling is not capped.
NextDelay_Uncapped(d) == d * 2

\* line 104: min(reconnect_delay * 2, 8.0)
NextDelay(d) == Min(d * 2, DELAY_CEILING)

\* lines 103-104: time.sleep(reconnect_delay), then the delay is doubled up to 8
Backoff(t) ==
  /\ pc[t] = "L103"
  /\ slept' = [slept EXCEPT ![t] = reconnect_delay[t]]
  /\ reconnect_delay' = [reconnect_delay EXCEPT ![t] = NextDelay(reconnect_delay[t])]
  /\ nfail' = [nfail EXCEPT ![t] = nfail[t] + 1]
  /\ pc' = [pc EXCEPT ![t] = "L97"]
  /\ UNCHANGED <<extVars, rcvVars, sock, buffer, mocap_frame, e, mainVars, envVars, frameHist,
                 partial, handoffHist>>

\* Mutant of AfterConnect: the buffer of the previous connection is kept.
AfterConnect_KeepBuffer(t) ==
  /\ pc[t] = "L108"
  /\ pc' = [pc EXCEPT ![t] = IF running THEN "L113" ELSE "L163"]
  /\ UNCHANGED <<extVars, rcvVars, sock, reconnect_delay, buffer, mocap_frame, e, mainVars, envVars,
                 frameHist, backoffHist, handoffHist>>

\* lines 108-112: if not self.running: break (to line 163, past sock.close());
\* otherwise buffer = ""
AfterConnect(t) ==
  /\ pc[t] = "L108"
  /\ IF running
       THEN /\ buffer' = [buffer EXCEPT ![t] = <<>>]
            /\ pc' = [pc EXCEPT ![t] = "L113"]
       ELSE /\ pc' = [pc EXCEPT ![t] = "L163"]
            /\ UNCHANGED buffer
  /\ UNCHANGED <<extVars, rcvVars, sock, reconnect_delay, mocap_frame, e, mainVars, envVars,
                 frameHist, backoffHist, handoffHist>>

\* line 113: while self.running and sock
ReceiveLoop(t) ==
  /\ pc[t] = "L113"
  /\ pc' = [pc EXCEPT ![t] = IF running /\ sock[t] # "None" THEN "L116" ELSE "L160"]
  /\ UNCHANGED <<extVars, rcvVars, sock, reconnect_delay, buffer, mocap_frame, e, mainVars, envVars,
                 frameHist, backoffHist, handoffHist>>

\* Mutant of RecvTimeout: a read timeout is handled like any other error.
RecvTimeout_AsError(t) ==
  /\ pc[t] = "L116"
  /\ pc' = [pc EXCEPT ![t] = "L154"]
  /\ UNCHANGED <<extVars, rcvVars, sock, reconnect_delay, buffer, mocap_frame, e, mainVars, envVars,
                 frameHist, backoffHist, handoffHist>>

\* line 116: sock.recv raises socket.timeout; lines 146-148 pass
RecvTimeout(t) ==
  /\ pc[t] = "L116"
  /\ pc' = [pc EXCEPT ![t] = "L113"]
  /\ UNCHANGED <<extVars, rcvVars, sock, reconnect_delay, buffer, mocap_frame, e, mainVars, envVars,
                 frameHist, backoffHist, handoffHist>>

\* lines 116-124: sock.recv returns a chunk, buffer += chunk.  The peer's
\* bytes are ASCII (Chars), which decode('utf-8') maps to the same characters.
RecvChunk(t) ==
  /\ pc[t] = "L116"
  /\ \E chunk \in ChunkSeqs :
       /\ Len(chunk) <= bytesLeft
       /\ bytesLeft' = bytesLeft - Len(chunk)
       /\ buffer' = [buffer EXCEPT ![t] = buffer[t] \o chunk]
       /\ stream' = [stream EXCEPT ![t] = stream[t] \o chunk]
  /\ pc' = [pc EXCEPT ![t] = "L127"]
  /\ UNCHANGED <<extVars, rcvVars, sock, reconnect_delay, mocap_frame, e, mainVars,
                 startsLeft, stopsLeft, failsLeft, drive, nDecoded, decoded, failures,
                 backoffHist, handoffHist>>

\* lines 116-118: sock.recv returns no bytes, the peer closed the connection
RecvClosed(t) ==
  /\ pc[t] = "L116"
  /\ pc' = [pc EXCEPT ![t] = "L120"]
  /\ partial' = [partial EXCEPT ![t] = partial[t] \/ buffer[t] # <<>>]
  /\ UNCHANGED <<extVars, rcvVars, sock, reconnect_delay, buffer, mocap_frame, e, mainVars, envVars,
                 frameHist, nfail, slept, handoffHist>>

\* line 116: sock.recv raises ConnectionResetError
RecvReset(t) ==
  /\ pc[t] = "L116"
  /\ pc' = [pc EXCEPT ![t] = "L150"]
  /\ UNCHANGED <<extVars, rcvVars, sock, reconnect_delay, buffer, mocap_frame, e, mainVars, envVars,
                 frameHist, backoffHist, handoffHist>>

\* line 116: sock.recv raises an exception that is no socket.timeout and no
\* ConnectionResetError; no clause before line 153 matches it, `except
\* Exception` catches it
RecvError(t) ==
  /\ pc[t] = "L116"
  /\ e' = [e EXCEPT ![t] = "OSError"]
  /\ pc' = [pc EXCEPT ![t] = "L154"]
  /\ UNCHANGED <<extVars, rcvVars, sock, reconnect_delay, buffer, mocap_frame, mainVars, envVars,
                 frameHist, backoffHist, handoffHist>>

\* line 116: sock.recv raises ConnectionAbortedError.  It is a subclass of
\* ConnectionError and a sibling of ConnectionResetError, so the clause of
\* line 149 does not match it and `except Exception` (line 153) catches it
RecvAborted(t) ==
  /\ pc[t] = "L116"
  /\ e' = [e EXCEPT ![t] = "ConnectionAbortedError"]
  /\ pc' = [pc EXCEPT ![t] = "L154"]
  /\ UNCHANGED <<extVars, rcvVars, sock, reconnect_delay, buffer, mocap_frame, mainVars, envVars,
                 frameHist, backoffHist, handoffHist>>

\* Mutant of MarkPeerClosed: the handoff is emptied when the connection ends.
MarkPeerClosed_ClearQueue(t) ==
  /\ pc[t] = "L120"
  /\ _status' = STATUS_RECONNECTING
  /\ data_queue' = <<>>
  /\ pc' = [pc EXCEPT ![t] = "L160"]
  /\ UNCHANGED <<extVars, running, thread, sock, reconnect_delay, buffer, mocap_frame, e,
                 mainVars, envVars, frameHist, backoffHist, handoffHist>>

\* lines 120-122: self.status = STATUS_RECONNECTING, break
MarkPeerClosed(t) ==
  /\ pc[t] = "L120"
  /\ _status' = STATUS_RECONNECTING
  /\ pc' = [pc EXCEPT ![t] = "L160"]
  /\ UNCHANGED <<extVars, running, thread, data_queue, sock, reconnect_delay, buffer, mocap_frame, e,
                 mainVars, envVars, frameHist, backoffHist, handoffHist>>

\* lines 127-133 and 141-144: one pass of `while '\n' in buffer` up to the
\* first queue operation, or the end of the loop
ProcessLine(t) ==
  /\ pc[t] = "L127"
  /\ IF ~HasNL(buffer[t])
       THEN /\ pc' = [pc EXCEPT ![t] = "L113"]
            /\ UNCHANGED <<buffer, mocap_frame, nDecoded, decoded, failures>>
       ELSE LET r == LineStep(buffer[t])
            IN /\ buffer' = [buffer EXCEPT ![t] = r.buffer]
               /\ IF r.kind = "frame"
                    THEN /\ nDecoded' = nDecoded + 1
                         /\ mocap_frame' = [mocap_frame EXCEPT ![t] =
                                              [id |-> nDecoded + 1, val |-> r.val]]
                         /\ decoded' = [decoded EXCEPT ![t] = Append(decoded[t], r.val)]
                         /\ pc' = [pc EXCEPT ![t] = LineTarget(r.kind)]
                         /\ UNCHANGED failures
                    ELSE /\ failures' = [failures EXCEPT ![t] =
                                           IF r.kind = "invalid" THEN failures[t] + 1
                                           ELSE failures[t]]
                         /\ pc' = [pc EXCEPT ![t] = LineTarget(r.kind)]
                         /\ UNCHANGED <<mocap_frame, nDecoded, decoded>>
  /\ UNCHANGED <<extVars, rcvVars, sock, reconnect_delay, e, mainVars, envVars, stream,
                 backoffHist, handoffHist>>

\* line 136: if self.data_queue.full()
CheckFull(t) ==
  /\ pc[t] = "L136"
  /\ pc' = [pc EXCEPT ![t] = IF full(data_queue) THEN "L138" ELSE "L139"]
  /\ clean' = FALSE
  /\ UNCHANGED <<extVars, rcvVars, sock, reconnect_delay, buffer, mocap_frame, e, mainVars, envVars,
                 frameHist, backoffHist, putsSince, lastPut, lastCall>>

\* Mutant of Evict: the pending frame is left in the queue.
Evict_Skipped(t) ==
  /\ pc[t] = "L138"
  /\ pc' = [pc EXCEPT ![t] = "L139"]
  /\ clean' = FALSE
  /\ UNCHANGED <<extVars, rcvVars, sock, reconnect_delay, buffer, mocap_frame, e, mainVars, envVars,
                 frameHist, backoffHist, putsSince, lastPut, lastCall>>

\* line 138: self.data_queue.get_nowait(); queue.Empty is no JSONDecodeError
\* and reaches `except Exception` at line 153
Evict(t) ==
  /\ pc[t] = "L138"
  /\ IF data_queue # <<>>
       THEN /\ data_queue' = Tail(data_queue)
            /\ pc' = [pc EXCEPT ![t] = "L139"]
            /\ UNCHANGED e
       ELSE /\ e' = [e EXCEPT ![t] = "Empty"]
            /\ pc' = [pc EXCEPT ![t] = "L154"]
            /\ UNCHANGED data_queue
  /\ clean' = FALSE
  /\ UNCHANGED <<extVars, running, thread, _status, sock, reconnect_delay, buffer, mocap_frame,
                 mainVars, envVars, frameHist, backoffHist, putsSince, lastPut, lastCall>>

\* line 139: self.data_queue.put_nowait(mocap_frame); queue.Full reaches line 153
Insert(t) ==
  /\ pc[t] = "L139"
  /\ IF ~full(data_queue)
       THEN /\ data_queue' = Append(data_queue, mocap_frame[t])
            /\ putsSince' = putsSince + 1
            /\ lastPut' = mocap_frame[t]
            /\ pc' = [pc EXCEPT ![t] = "L127"]
            /\ UNCHANGED e
       ELSE /\ e' = [e EXCEPT ![t] = "Full"]
            /\ pc' = [pc EXCEPT ![t] = "L154"]
            /\ UNCHANGED <<data_queue, putsSince, lastPut>>
  /\ clean' = FALSE
  /\ UNCHANGED <<extVars, running, thread, _status, sock, reconnect_delay, buffer, mocap_frame,
                 mainVars, envVars, frameHist, backoffHist, lastCall>>

\* lines 149-152: self.status = STATUS_RECONNECTING, break
MarkReset(t) ==
  /\ pc[t] = "L150"
  /\ _status' = STATUS_RECONNECTING
  /\ pc' = [pc EXCEPT ![t] = "L160"]
  /\ UNCHANGED <<extVars, running, thread, data_queue, sock, reconnect_delay, buffer, mocap_frame, e,
                 mainVars, envVars, frameHist, backoffHist, handoffHist>>

\* lines 153-154: except Exception as e: self.status = STATUS_ERROR
MarkError(t) ==
  /\ pc[t] = "L154"
  /\ _status' = STATUS_ERROR
  /\ pc' = [pc EXCEPT ![t] = "L156"]
  /\ UNCHANGED <<extVars, running, thread, data_queue, sock, reconnect_delay, buffer, mocap_frame, e,
                 mainVars, envVars, frameHist, backoffHist, handoffHist>>

\* Mutant of ErrorPause: an unexpected error ends the listener.
ErrorPause_Exit(t) ==
  /\ pc[t] = "L156"
  /\ e' = [e EXCEPT ![t] = ""]
  /\ pc' = [pc EXCEPT ![t] = "L163"]
  /\ UNCHANGED <<extVars, rcvVars, sock, reconnect_delay, buffer, mocap_frame, mainVars, envVars,
                 frameHist, backoffHist, handoffHist>>

\* lines 156-157: time.sleep(1), break
ErrorPause(t) ==
  /\ pc[t] = "L156"
  /\ e' = [e EXCEPT ![t] = ""]
  /\ pc' = [pc EXCEPT ![t] = "L160"]
  /\ UNCHANGED <<extVars, rcvVars, sock, reconnect_delay, buffer, mocap_frame, mainVars, envVars,
                 frameHist, backoffHist, handoffHist>>

\* lines 160-161: if sock: sock.close(); back to line 94
CloseSocket(t) ==
  /\ pc[t] = "L160"
  /\ sock' = [sock EXCEPT ![t] = IF sock[t] = "None" THEN "None" ELSE "closed"]
  /\ pc' = [pc EXCEPT ![t] = "L94"]
  /\ UNCHANGED <<extVars, rcvVars, reconnect_delay, buffer, mocap_frame, e, mainVars, envVars,
                 frameHist, backoffHist, handoffHist>>

\* lines 163-164: self.status = STATUS_DISCONNECTED, the thread ends
ThreadEnd(t) ==
  /\ pc[t] = "L163"
  /\ _status' = STATUS_DISCONNECTED
  /\ pc' = [pc EXCEPT ![t] = "done"]
  /\ UNCHANGED <<extVars, running, thread, data_queue, sock, reconnect_delay, buffer, mocap_frame, e,
                 mainVars, envVars, frameHist, backoffHist, handoffHist>>

\* ------------------------------------------------------------ main thread
\* The thread that owns the receiver: it calls start(), stop() and
\* get_latest_data() one after the other.

Unborn == {t \in Threads : pc[t] = "unborn"}
NewThread == CHOOSE t \in Unborn : \A u \in Unborn : t <= u

\* start(), lines 41-50
start ==
  /\ mpc = "idle"
  /\ startsLeft > 0
  /\ startsLeft' = startsLeft - 1
  /\ IF running
       THEN UNCHANGED <<running, thread, pc, reconnect_delay>>
       ELSE /\ running' = TRUE
            /\ thread' = NewThread
            /\ pc' = [pc EXCEPT ![NewThread] = "L94"]
            /\ reconnect_delay' = [reconnect_delay EXCEPT ![NewThread] = DELAY_FLOOR]
  /\ UNCHANGED <<extVars, _status, data_queue, sock, buffer, mocap_frame, e, mainVars,
                 stopsLeft, bytesLeft, failsLeft, drive, frameHist, backoffHist, handoffHist>>

\* stop(), line 54: self.running = False
stop ==
  /\ mpc = "idle"
  /\ stopsLeft > 0
  /\ stopsLeft' = stopsLeft - 1
  /\ running' = FALSE
  /\ stopped' = [t \in Threads |-> stopped[t] \/ pc[t] # "unborn"]
  /\ mpc' = IF thread # 0 THEN "L57" ELSE "L60"
  /\ UNCHANGED <<opc, calVars, thread, _status, data_queue, locVars, latest,
                 startsLeft, bytesLeft, failsLeft, drive, frameHist, backoffHist, handoffHist>>

\* Mutant of stopJoin: join() without a timeout, it returns only when the
\* thread has ended.
stopJoin_NoTimeout ==
  /\ mpc = "L57"
  /\ pc[thread] = "done"
  /\ mpc' = "L60"
  /\ UNCHANGED <<extVars, rcvVars, locVars, latest, envVars, frameHist, backoffHist, handoffHist>>

\* stop(), lines 57-59: self.thread.join(timeout=1.0) returns, because the
\* thread ended or because the timeout expired.  Lines 57 and 58 read
\* self.thread again: when it is None by now, the attribute access raises
\* AttributeError and the call ends there.
stopJoin ==
  /\ mpc = "L57"
  /\ mpc' = IF thread # 0 THEN "L60" ELSE "raised"
  /\ UNCHANGED <<extVars, rcvVars, locVars, latest, envVars, frameHist, backoffHist, handoffHist>>

\* stop(), lines 60-61: self.thread = None, self.status = STATUS_DISCONNECTED
stopFinish ==
  /\ mpc = "L60"
  /\ thread' = 0
  /\ _status' = STATUS_DISCONNECTED
  /\ mpc' = "idle"
  /\ UNCHANGED <<extVars, running, data_queue, locVars, latest, envVars, frameHist, backoffHist,
                 handoffHist>>

\* stop() called by a second thread, line 54 and the test of line 55
stop_other ==
  /\ opc = "idle"
  /\ running' = FALSE
  /\ stopped' = [t \in Threads |-> stopped[t] \/ pc[t] # "unborn"]
  /\ opc' = IF thread # 0 THEN "L57" ELSE "L60"
  /\ UNCHANGED <<calVars, thread, _status, data_queue, locVars, mainVars, envVars, frameHist,
                 backoffHist, handoffHist>>

\* stop() called by a second thread, lines 57-59
stopJoin_other ==
  /\ opc = "L57"
  /\ opc' = IF thread # 0 THEN "L60" ELSE "raised"
  /\ UNCHANGED <<stopped, calVars, rcvVars, locVars, mainVars, envVars, frameHist, backoffHist,
                 handoffHist>>

\* stop() called by a second thread, lines 60-61
stopFinish_other ==
  /\ opc = "L60"
  /\ thread' = 0
  /\ _status' = STATUS_DISCONNECTED
  /\ opc' = "returned"
  /\ UNCHANGED <<stopped, calVars, running, data_queue, locVars, mainVars, envVars, frameHist,
                 backoffHist, handoffHist>>

\* Queue.get_nowait() of get_latest_data: the item taken, or None for queue.Empty
get_nowait(q) == IF q # <<>> THEN Head(q) ELSE None

\* The program counters between json.loads and the end of put_nowait
Enqueuing == {"L136", "L138", "L139"}

\* Mutant of get_latest_data: latest is not reset, the frame of the previous
\* call is kept.
get_latest_data_Stale ==
  /\ mpc = "idle"
  /\ drive
  /\ mpc' = "L173"
  /\ clean' = \A t \in Threads : pc[t] \notin Enqueuing
  /\ UNCHANGED <<extVars, rcvVars, locVars, latest, envVars, frameHist, backoffHist, putsSince,
                 lastPut, lastCall>>

\* get_latest_data(), line 170: latest = None
get_latest_data ==
  /\ mpc = "idle"
  /\ drive
  /\ latest' = None
  /\ mpc' = "L173"
  /\ clean' = \A t \in Threads : pc[t] \notin Enqueuing
  /\ UNCHANGED <<extVars, rcvVars, locVars, envVars, frameHist, backoffHist, putsSince, lastPut,
                 lastCall>>

\* get_latest_data(), line 173: latest = self.data_queue.get_nowait()
Drain ==
  /\ mpc = "L173"
  /\ data_queue # <<>>
  /\ latest' = get_nowait(data_queue)
  /\ data_queue' = Tail(data_queue)
  /\ UNCHANGED <<extVars, running, thread, _status, locVars, mpc, envVars, frameHist, backoffHist,
                 handoffHist>>

\* get_latest_data(), lines 174-175: except Empty: return latest
Return ==
  /\ mpc = "L173"
  /\ data_queue = <<>>
  /\ mpc' = "idle"
  /\ lastCall' = [called |-> TRUE, ret |-> latest,
                  clean |-> clean /\ \A t \in Threads : pc[t] \notin Enqueuing,
                  puts |-> putsSince,
                  last |-> lastPut, dec |-> nDecoded,
                  prev |-> IF lastCall.ret # None THEN lastCall.ret.id ELSE lastCall.prev]
  /\ putsSince' = 0
  /\ clean' = FALSE
  /\ UNCHANGED <<extVars, rcvVars, locVars, latest, envVars, frameHist, backoffHist, lastPut>>

\* ----------------------------------------------------------- calibration
\* The receiver's variables, which no function of mocap_logic touches.
receiverVars ==
  <<rcvVars, locVars, mainVars, envVars, frameHist, backoffHist, handoffHist, stopped, opc>>

\* The bone names calibrate_pose stores an offset for: the values of the bone
\* map for which pose_bones.get() finds a bone (lines 216-218)
Calibrated(m) == {m[j] : j \in DOMAIN m} \cap PoseBones

\* Mutant of calibrate_pose: the store is not cleared and a new offset is
\* composed with the one already stored.
calibrate_pose_Accumulate(armature_obj) ==
  IF armature_obj = NoObject \/ armature_obj.type # "ARMATURE"
    THEN [ret |-> "False", offsets |-> NoOffsets, mode |-> armature_obj.mode]
    ELSE IF armature_obj.mode # "POSE" /\ ~armature_obj.posable
           THEN [ret |-> "RuntimeError", offsets |-> NoOffsets, mode |-> armature_obj.mode]
           ELSE [ret |-> "True",
                 offsets |-> [b \in Calibrated(bone_map) |->
                                IF b \in DOMAIN CALIBRATION_OFFSETS
                                  THEN matmul(inverted(rotation_quaternion[b]),
                                              CALIBRATION_OFFSETS[b])
                                  ELSE inverted(rotation_quaternion[b])],
                 mode |-> "POSE"]

\* Mutant of calibrate_pose: the store is not cleared, so the entries of an
\* earlier calibration stay unless they are overwritten.
calibrate_pose_NoClear(armature_obj) ==
  IF armature_obj = NoObject \/ armature_obj.type # "ARMATURE"
    THEN [ret |-> "False", offsets |-> CALIBRATION_OFFSETS, mode |-> armature_obj.mode]
    ELSE IF armature_obj.mode # "POSE" /\ ~armature_obj.posable
           THEN [ret |-> "RuntimeError", offsets |-> CALIBRATION_OFFSETS,
                 mode |-> armature_obj.mode]
           ELSE [ret |-> "True",
                 offsets |-> [b \in DOMAIN CALIBRATION_OFFSETS \cup Calibrated(bone_map) |->
                                IF b \in Calibrated(bone_map)
                                  THEN inverted(rotation_quaternion[b])
                                  ELSE CALIBRATION_OFFSETS[b]],
                 mode |-> "POSE"]

\* calibrate_pose(armature_obj), lines 191-225: what it returns (or the
\* exception it ends with), the store it leaves and the mode of the object.
\* The store is cleared first (line 197), whatever follows.
calibrate_pose(armature_obj) ==
  IF armature_obj = NoObject \/ armature_obj.type # "ARMATURE"
    THEN [ret |-> "False", offsets |-> NoOffsets, mode |-> armature_obj.mode]
    ELSE IF armature_obj.mode # "POSE" /\ ~armature_obj.posable
           THEN [ret |-> "RuntimeError", offsets |-> NoOffsets, mode |-> armature_obj.mode]
           ELSE [ret |-> "True",
                 offsets |-> [b \in Calibrated(bone_map) |->
                                inverted(rotation_quaternion[b])],
                 mode |-> "POSE"]

\* MOCAP_OT_calibrate_pose.execute (operators.py, lines 164-178): without a
\* target the operator is cancelled, otherwise it calls calibrate_pose.
\* call.before keeps the bone names the store held when the operator ran.
calibrate ==
  /\ IF target_armature = NoObject
       THEN /\ call' = [op |-> "calibrate", bone |-> "", data |-> <<>>, ret |-> "CANCELLED",
                        rep |-> call.op = "calibrate",
                        before |-> DOMAIN CALIBRATION_OFFSETS]
            /\ UNCHANGED <<CALIBRATION_OFFSETS, target_armature>>
       ELSE LET r == calibrate_pose(target_armature)
            IN /\ CALIBRATION_OFFSETS' = r.offsets
               /\ target_armature' = [target_armature EXCEPT !.mode = r.mode]
               /\ call' = [op |-> "calibrate", bone |-> "", data |-> <<>>, ret |-> r.ret,
                           rep |-> call.op = "calibrate",
                           before |-> DOMAIN CALIBRATION_OFFSETS]
  /\ UNCHANGED <<receiverVars, rotation_quaternion, bone_map, sceneVars>>

\* Mutant of final_quat: the offset is composed on the right.
final_quat_OffsetOnRight(blender_bone_name, mocap_quat) ==
  IF blender_bone_name \in DOMAIN CALIBRATION_OFFSETS
    THEN matmul(mocap_quat, CALIBRATION_OFFSETS[blender_bone_name])
    ELSE mocap_quat

\* apply_rotation, lines 82-89: offset_quat @ mocap_quat, or mocap_quat
final_quat(blender_bone_name, mocap_quat) ==
  IF blender_bone_name \in DOMAIN CALIBRATION_OFFSETS
    THEN matmul(CALIBRATION_OFFSETS[blender_bone_name], mocap_quat)
    ELSE mocap_quat

\* apply_rotation(pose_bone, rotation_data), lines 73-97, for a pose bone of
\* the armature; rotation data that is empty or not of length 4 writes nothing
apply_rotation ==
  /\ target_armature.type = "ARMATURE"
  /\ \E b \in PoseBones, rotation_data \in RotationData :
       /\ rotation_quaternion' =
            IF Len(rotation_data) = 4
              THEN [rotation_quaternion EXCEPT ![b] = final_quat(b, rotation_data)]
              ELSE rotation_quaternion
       /\ call' = [op |-> "apply", bone |-> b, data |-> rotation_data, ret |-> "None",
                   rep |-> FALSE]
  /\ UNCHANGED <<receiverVars, CALIBRATION_OFFSETS, target_armature, bone_map, sceneVars>>

\* The user picks the target object in the panel (ui_panel.py, line 65)
select_target ==
  /\ \E obj \in Objects : target_armature' = obj
  /\ call' = [op |-> "select", bone |-> "", data |-> <<>>, ret |-> "", rep |-> FALSE]
  /\ UNCHANGED <<receiverVars, CALIBRATION_OFFSETS, rotation_quaternion, bone_map, sceneVars>>

\* MOCAP_OT_remove_mapping.execute (operators.py, lines 208-218): the user
\* removes the selected entry of the mapping list, here any entry
remove_mapping ==
  /\ \E j \in DOMAIN bone_map :
       bone_map' = [k \in DOMAIN bone_map \ {j} |-> bone_map[k]]
  /\ call' = [op |-> "remove_mapping", bone |-> "", data |-> <<>>, ret |-> "FINISHED",
              rep |-> FALSE]
  /\ UNCHANGED <<receiverVars, CALIBRATION_OFFSETS, target_armature, rotation_quaternion,
                 sceneVars>>

\* The scene when the add-on is loaded: an empty store, some target, some
\* pose, some bone map; the receiver is not started.
CalInit ==
  /\ InitReceiver
  /\ startsLeft = 0 /\ stopsLeft = 0 /\ bytesLeft = 0 /\ failsLeft = 0 /\ drive = FALSE
  /\ CALIBRATION_OFFSETS = NoOffsets
  /\ target_armature \in Objects
  /\ rotation_quaternion \in [PoseBones -> Quats]
  /\ bone_map \in BoneMaps
  /\ call = NoCall
  /\ location = [b \in PoseBones |-> <<0, 0, 0>>]
  /\ mocap_mode = "WHOLE_BODY"
  /\ feed = {}
  /\ bone_length = [b \in PoseBones |-> 300]
  /\ NoSession

CalSpec == CalInit /\ [][calibrate \/ apply_rotation \/ select_target \/ remove_mapping]_vars

\* ------------------------------------------------------------ retargeting
\* Names are strings.  Spell gives the characters of every joint and bone
\* name of the model, so that the substring and prefix tests of the code are
\* computed on the names and not looked up.
Spell(name) ==
  CASE name = "Hips" -> <<"H", "i", "p", "s">>
    [] name = "Spine" -> <<"S", "p", "i", "n", "e">>
    [] name = "Neck" -> <<"N", "e", "c", "k">>
    [] name = "Head" -> <<"H", "e", "a", "d">>
    [] name = "LeftShoulder" -> <<"L", "e", "f", "t", "S", "h", "o", "u", "l", "d", "e", "r">>
    [] name = "LeftElbow" -> <<"L", "e", "f", "t", "E", "l", "b", "o", "w">>
    [] name = "LeftWrist" -> <<"L", "e", "f", "t", "W", "r", "i", "s", "t">>
    [] name = "RightShoulder" -> <<"R", "i", "g", "h", "t", "S", "h", "o", "u", "l", "d", "e", "r">>
    [] name = "RightElbow" -> <<"R", "i", "g", "h", "t", "E", "l", "b", "o", "w">>
    [] name = "RightWrist" -> <<"R", "i", "g", "h", "t", "W", "r", "i", "s", "t">>
    [] name = "LeftUpLeg" -> <<"L", "e", "f", "t", "U", "p", "L", "e", "g">>
    [] name = "LeftLeg" -> <<"L", "e", "f", "t", "L", "e", "g">>
    [] name = "RightUpLeg" -> <<"R", "i", "g", "h", "t", "U", "p", "L", "e", "g">>
    [] name = "RightLeg" -> <<"R", "i", "g", "h", "t", "L", "e", "g">>
    [] name = "LeftHand" -> <<"L", "e", "f", "t", "H", "a", "n", "d">>
    [] name = "mixamorig:Hips" -> <<"m", "i", "x", "a", "m", "o", "r", "i", "g", ":", "H", "i", "p", "s">>
    [] name = "mixamorig:Spine" -> <<"m", "i", "x", "a", "m", "o", "r", "i", "g", ":", "S", "p", "i", "n", "e">>
    [] name = "mixamorig:LeftArm" -> <<"m", "i", "x", "a", "m", "o", "r", "i", "g", ":", "L", "e", "f", "t", "A", "r", "m">>
    [] name = "mixamorig:LeftForeArm" -> <<"m", "i", "x", "a", "m", "o", "r", "i", "g", ":", "L", "e", "f", "t", "F", "o", "r", "e", "A", "r", "m">>
    [] name = "mixamorig:LeftHand" -> <<"m", "i", "x", "a", "m", "o", "r", "i", "g", ":", "L", "e", "f", "t", "H", "a", "n", "d">>
    [] OTHER -> <<>>

\* The capital and the small letters, and str.lower()
Letters ==
  << <<"A", "B", "C", "D", "E", "F", "G", "H", "I", "J", "K", "L", "M", "N", "O", "P", "Q", "R", "S", "T", "U", "V", "W", "X", "Y", "Z">>,
     <<"a", "b", "c", "d", "e", "f", "g", "h", "i", "j", "k", "l", "m", "n", "o", "p", "q", "r", "s", "t", "u", "v", "w", "x", "y", "z">> >>
lower(s) ==
  LET lower_char(c) ==
        IF \E i \in DOMAIN Letters[1] : Letters[1][i] = c
          THEN Letters[2][CHOOSE i \in DOMAIN Letters[1] : Letters[1][i] = c]
          ELSE c
  IN [i \in 1..Len(s) |-> lower_char(s[i])]

\* "k in s" of Python for two strings
contains(s, k) == \E i \in 0..(Len(s) - Len(k)) : SubSeq(s, i + 1, i + Len(k)) = k

\* HAND_FILTER of map_hands_only (line 130), and the joint names of a bone
\* map of the model for which any(f in mocap_name for f in HAND_FILTER)
\* holds (line 134)
HAND_FILTER ==
  {<<"H", "a", "n", "d">>,
   <<"F", "i", "n", "g", "e", "r">>,
   <<"I", "n", "d", "e", "x">>,
   <<"T", "h", "u", "m", "b">>,
   <<"M", "i", "d", "d", "l", "e">>,
   <<"R", "i", "n", "g">>,
   <<"P", "i", "n", "k", "y">>}
HandJoints ==
  {j \in {"Hips", "Spine", "LeftShoulder", "LeftElbow", "LeftWrist", "LeftHand"} :
     \E f \in HAND_FILTER : contains(Spell(j), f)}

\* armature_obj.pose.bones of the rig that is retargeted, in the order of
\* the collection, and None for a bone name
RigBones ==
  <<"mixamorig:Hips", "mixamorig:Spine", "mixamorig:LeftArm",
    "mixamorig:LeftForeArm", "mixamorig:LeftHand">>
NoName == ""

\* resolve_bone_name without a direct mapping, lines 248-283, for each joint
\* name apply_mediapipe_pose resolves: the bones of the rig that the
\* candidate names spell, in the order the candidates are tried (lines
\* 270-279), followed by the bones whose name contains the base name,
\* whatever the case of the letters (lines 281-283).  The base name is the
\* joint name without its side prefix and without blanks (lines 259-267).
FallbackBones ==
  [mocap_name \in
     {"Hips", "Spine", "Neck", "Head", "LeftShoulder", "LeftElbow", "LeftWrist",
      "RightShoulder", "RightElbow", "RightWrist", "LeftUpLeg", "LeftLeg", "RightUpLeg",
      "RightLeg"} |->
   LET name == Spell(mocap_name)
       startswith(s, k) == Len(k) <= Len(s) /\ SubSeq(s, 1, Len(k)) = k
       cut(n) == SubSeq(name, n + 1, Len(name))
       side_names ==
         IF startswith(lower(name), <<"l", "e", "f", "t">>)
           THEN <<<<".", "L">>, <<"_", "L">>, <<"_", "l", "e", "f", "t">>, <<" ", "L">>>>
           ELSE IF startswith(lower(name), <<"r", "i", "g", "h", "t">>)
                  THEN <<<<".", "R">>, <<"_", "R">>, <<"_", "r", "i", "g", "h", "t">>, <<" ", "R">>>>
                  ELSE <<<<>>, <<".", "L">>, <<".", "R">>, <<"_", "L">>, <<"_", "R">>>>
       prefixed == IF startswith(name, <<"l", "e", "f", "t">>) THEN cut(4)
                   ELSE IF startswith(name, <<"r", "i", "g", "h", "t">>) THEN cut(5)
                   ELSE IF startswith(name, <<"L", "e", "f", "t">>) THEN cut(4)
                   ELSE IF startswith(name, <<"R", "i", "g", "h", "t">>) THEN cut(5)
                   ELSE name
       base == SelectSeq(strip(prefixed), LAMBDA c : c # " ")
       upper_char(c) ==
         IF \E i \in DOMAIN Letters[2] : Letters[2][i] = c
           THEN Letters[1][CHOOSE i \in DOMAIN Letters[2] : Letters[2][i] = c]
           ELSE c
       capitalize(s) == IF s = <<>> THEN s ELSE <<upper_char(s[1])>> \o lower(Tail(s))
       RECURSIVE candidates(_)
       candidates(sides) ==
         IF sides = <<>> THEN <<>>
         ELSE << base \o Head(sides),
                 <<"U", "p", "p", "e", "r">> \o base \o Head(sides),
                 <<"u", "p", "p", "e", "r", "_">> \o lower(base) \o Head(sides),
                 capitalize(base) \o Head(sides) >> \o candidates(Tail(sides))
       RECURSIVE named(_)
       named(cs) ==
         IF cs = <<>> THEN <<>>
         ELSE SelectSeq(RigBones, LAMBDA b : Spell(b) = Head(cs)) \o named(Tail(cs))
   IN named(candidates(side_names))
        \o SelectSeq(RigBones, LAMBDA b : contains(lower(Spell(b)), lower(base)))]

\* The first bone of a sequence that is a pose bone of the armature
RECURSIVE first_pose_bone(_)
first_pose_bone(bones) ==
  IF bones = <<>> THEN NoName
  ELSE IF Head(bones) \in DOMAIN rotation_quaternion THEN Head(bones)
  ELSE first_pose_bone(Tail(bones))

\* resolve_bone_name(mocap_name), lines 243-284
resolve_bone_name(mocap_name) ==
  IF mocap_name \in DOMAIN bone_map
    THEN bone_map[mocap_name]
    ELSE first_pose_bone(FallbackBones[mocap_name])

\* A mathutils.Vector is <<x, y, z>>; coordinates are counted in
\* thousandths, so that 1.0 is Unit and a landmark coordinate of 0.5 is
\* Unit \div 2.  The landmarks of the model have even coordinates: the
\* halving of a sum of two vectors is exact.
Unit == 1000
vsub(a, b) == <<a[1] - b[1], a[2] - b[2], a[3] - b[3]>>

\* (a + b) / 2.0 of two vectors
midpoint(a, b) == <<(a[1] + b[1]) \div 2, (a[2] + b[2]) \div 2, (a[3] + b[3]) \div 2>>

\* Vector.normalized() of a vector that is not zero: the direction, written
\* as the shortest integer vector that points the same way
normalized(v) ==
  LET abs(n) == IF n < 0 THEN -n ELSE n
      RECURSIVE gcd(_, _)
      gcd(a, b) == IF b = 0 THEN a ELSE gcd(b, a % b)
      g == gcd(gcd(abs(v[1]), abs(v[2])), abs(v[3]))
  IN <<v[1] \div g, v[2] \div g, v[3] \div g>>

\* lm_to_vec(lm), line 290
lm_to_vec(lm) == <<(lm[1] - Unit \div 2) * 2, (Unit \div 2 - lm[2]) * 2, -lm[3]>>

\* pose_list[i] of Python, for an index the list has
at(pose_list, i) == pose_list[i + 1]

\* smooth_lm(idx, vec, alpha=0.6), lines 294-302, with the dictionary it
\* reads: the value it returns (and stores under idx)
smooth_lm(_LAST_LM, idx, vec) ==
  IF idx \in DOMAIN _LAST_LM
    THEN LET prev == _LAST_LM[idx]
         IN <<(prev[1] * 4 + vec[1] * 6) \div 10,
              (prev[2] * 4 + vec[2] * 6) \div 10,
              (prev[3] * 4 + vec[3] * 6) \div 10>>
    ELSE vec

\* Mutant of set_bone_direction: the calibration offset is not applied.
set_bone_direction_NoOffset(r, source_vec, target_vec, blender_bone_name) ==
  LET dir_vec == vsub(target_vec, source_vec)
      quat == IF dir_vec[1] = 0 /\ dir_vec[3] = 0
                THEN Identity
                ELSE <<Identity, normalized(dir_vec)>>
  IN IF blender_bone_name \notin DOMAIN r.rot \/ dir_vec = <<0, 0, 0>>
       THEN r
       ELSE [rot |-> [r.rot EXCEPT ![blender_bone_name] = quat],
             lm |-> r.lm \cup {blender_bone_name}]

\* set_bone_direction(source_vec, target_vec, blender_bone_name), lines
\* 320-355, on r = [rot: the rotations of the pose bones, lm: the bones set so
\* far]: nothing is set for a name that is no pose bone or for two points
\* that coincide.  quat (lines 335-341) is the rotation that turns the axis
\* (0, 1, 0) to dir_vec: the identity when the cross product of the two is
\* zero, and otherwise <<q, d>>, which stands for q @ R(d) with R(d) the
\* rotation about up x d that turns (0, 1, 0) to the direction d.  The
\* rotation written is offset_q @ quat, or quat (lines 344-349).
set_bone_direction(r, source_vec, target_vec, blender_bone_name) ==
  LET dir_vec == vsub(target_vec, source_vec)
      quat == IF dir_vec[1] = 0 /\ dir_vec[3] = 0
                THEN Identity
                ELSE <<Identity, normalized(dir_vec)>>
      offset_q == CALIBRATION_OFFSETS[blender_bone_name]
      final_q == IF blender_bone_name \in DOMAIN CALIBRATION_OFFSETS
                   THEN IF Len(quat) = 4
                          THEN matmul(offset_q, quat)
                          ELSE <<matmul(offset_q, quat[1]), quat[2]>>
                   ELSE quat
  IN IF blender_bone_name \notin DOMAIN r.rot \/ dir_vec = <<0, 0, 0>>
       THEN r
       ELSE [rot |-> [r.rot EXCEPT ![blender_bone_name] = final_q],
             lm |-> r.lm \cup {blender_bone_name}]

\* Mutant of d_clamped: the distance is not raised to the lower bound.
d_clamped_NoLower(L1, L2, dd) ==
  IF dd > (L1 + L2 - 1) * (L1 + L2 - 1)
    THEN [own |-> FALSE, bound |-> L1 + L2 - 1]
    ELSE [own |-> TRUE, bound |-> 0]

\* d_clamped = min(max(d, abs(L1 - L2) + 1e-3), L1 + L2 - 1e-3), line 381,
\* for the distance d whose square is dd; 1e-3 is one unit of length and
\* distances are compared by their squares.  It is d itself (own) or one of
\* the two bounds.
d_clamped(L1, L2, dd) ==
  LET lo == (IF L1 < L2 THEN L2 - L1 ELSE L1 - L2) + 1
      hi == L1 + L2 - 1
  IN IF lo > hi \/ dd > hi * hi THEN [own |-> FALSE, bound |-> hi]
     ELSE IF dd < lo * lo THEN [own |-> FALSE, bound |-> lo]
     ELSE [own |-> TRUE, bound |-> 0]

\* two_bone_ik(root_vec, mid_vec, tip_vec, upper_name, lower_name), lines
\* 357-396, on r as set_bone_direction.  The lengths are upper.bone.length
\* and lower.bone.length (lines 368-369).  A distance below eps = 1e-6 is the
\* distance 0 at the resolution of the model (line 378).  k is the numerator
\* of a (line 388) and sq the square of d_clamped, so that a is k over twice
\* d_clamped; a division by 0 raises ZeroDivisionError, outside any try.
\* joint_pos lies on the line from root to target at the signed distance a,
\* so the two directions set are the direction of the target from the root,
\* each with the sign of a and of d - a; a direction of length 0 sets nothing
\* (line 330).  The result is r with, as joint, what was solved.  No line of
\* the module calls it.
two_bone_ik(r, root_vec, mid_vec, tip_vec, upper_name, lower_name) ==
  LET left(solved, raised, sq, k) ==
        [solved |-> solved, raised |-> raised, sq |-> sq, k |-> k]
      sign(n) == IF n > 0 THEN 1 ELSE IF n < 0 THEN -1 ELSE 0
      v == vsub(tip_vec, root_vec)
      scaled(n) == <<n * v[1], n * v[2], n * v[3]>>
      joined(res, sq, k) ==
        [rot |-> res.rot, lm |-> res.lm, joint |-> left(TRUE, FALSE, sq, k)]
      \* lines 394-395, with the signs of a and of d - a
      apply(sq, k, sign_a, sign_rest) ==
        joined(set_bone_direction(
                 set_bone_direction(r, <<0, 0, 0>>, scaled(sign_a), upper_name),
                 <<0, 0, 0>>, scaled(sign_rest), lower_name),
               sq, k)
      \* lines 388-391: a has the sign of k * d_clamped; d - a is positive when
      \* a is not, and otherwise has the sign of rest: that of 2 * d * d - k for
      \* d itself, that of d * d - a * a for a bound
      place(c, sq, k, rest) ==
        apply(sq, k, sign(k) * c, IF sign(k) * c <= 0 THEN 1 ELSE sign(rest))
      solve(L1, L2, dd, dc) ==
        IF dc.own
          THEN place(1, dd, L1 * L1 - L2 * L2 + dd, dd - L1 * L1 + L2 * L2)
        ELSE IF dc.bound = 0
          THEN [rot |-> r.rot, lm |-> r.lm, joint |-> left(FALSE, TRUE, 0, 0)]
        ELSE place(sign(dc.bound), dc.bound * dc.bound,
                   L1 * L1 - L2 * L2 + dc.bound * dc.bound,
                   4 * dc.bound * dc.bound * dd
                     - (L1 * L1 - L2 * L2 + dc.bound * dc.bound)
                         * (L1 * L1 - L2 * L2 + dc.bound * dc.bound))
      distance(L1, L2, dd) ==
        IF dd = 0 THEN [rot |-> r.rot, lm |-> r.lm, joint |-> left(FALSE, FALSE, 0, 0)]
        ELSE solve(L1, L2, dd, d_clamped(L1, L2, dd))
  IN IF upper_name \notin DOMAIN r.rot \/ lower_name \notin DOMAIN r.rot
       THEN [rot |-> r.rot, lm |-> r.lm, joint |-> left(FALSE, FALSE, 0, 0)]
       ELSE distance(bone_length[upper_name], bone_length[lower_name],
                     v[1] * v[1] + v[2] * v[2] + v[3] * v[3])

\* lines 411-419: the loop over the segments <<mocap_a, mocap_b, a_vec, b_vec>>
RECURSIVE segments_loop(_, _)
segments_loop(r, segments) ==
  IF segments = <<>> THEN r
  ELSE LET seg == Head(segments)
           a_name == resolve_bone_name(seg[1])
           b_name == resolve_bone_name(seg[2])
           r1 == IF a_name # NoName THEN set_bone_direction(r, seg[3], seg[4], a_name)
                 ELSE IF b_name # NoName THEN set_bone_direction(r, seg[3], seg[4], b_name)
                 ELSE r
       IN segments_loop(r1, Tail(segments))

\* apply_mediapipe_pose(armature_obj, mediapipe_data), lines 228-448, for a
\* landmark list of well-formed points: the rotations it leaves, the bones it
\* set, the six smoothed arm landmarks it used (<<>> if it did not get that
\* far) and whether it ended with an exception.  _LAST_LM is created empty
\* by every call (line 293).  A list shorter than 17 makes pose_list[16] fail
\* inside the try of lines 309-317; a list shorter than 27 makes the segment
\* table of lines 399-408 fail with IndexError outside any try.
apply_mediapipe_pose(rot, pose_list) ==
  LET none == [rot |-> rot, lm |-> {}, used |-> <<>>, raised |-> FALSE]
      point(i) == lm_to_vec(at(pose_list, i))
      \* lines 310-315: _LAST_LM after one more landmark is smoothed
      smoothed(_LAST_LM, idx) ==
        [i \in DOMAIN _LAST_LM \cup {idx} |->
           IF i = idx THEN smooth_lm(_LAST_LM, idx, point(idx)) ELSE _LAST_LM[i]]
      arms ==
        smoothed(smoothed(smoothed(smoothed(smoothed(smoothed(
          [i \in {} |-> <<0, 0, 0>>], 11), 12), 13), 14), 15), 16)
      \* lines 422-446: one of hips, spine, neck and head
      part(r, source_vec, target_vec, bname) ==
        IF bname # NoName THEN set_bone_direction(r, source_vec, target_vec, bname) ELSE r
      result(r, used) == [rot |-> r.rot, lm |-> r.lm, used |-> used, raised |-> FALSE]
      limbs(ls, rs, le, re, lw, rw, hips_mid, neck_mid) ==
        result(
          part(part(part(part(
            segments_loop(
              [rot |-> rot, lm |-> {}],
              << <<"LeftShoulder", "LeftElbow", ls, le>>,
                 <<"LeftElbow", "LeftWrist", le, lw>>,
                 <<"RightShoulder", "RightElbow", rs, re>>,
                 <<"RightElbow", "RightWrist", re, rw>>,
                 <<"Hips", "LeftUpLeg", midpoint(ls, le), point(23)>>,
                 <<"LeftUpLeg", "LeftLeg", point(23), point(25)>>,
                 <<"RightUpLeg", "RightLeg", point(24), point(26)>> >>),
            hips_mid, point(11), resolve_bone_name("Hips")),
            hips_mid, neck_mid, resolve_bone_name("Spine")),
            neck_mid, point(0), resolve_bone_name("Neck")),
            neck_mid, point(0), resolve_bone_name("Head")),
          <<ls, rs, le, re, lw, rw>>)
      all(L) ==
        IF Len(pose_list) <= 26
          THEN [none EXCEPT !.used = <<L[11], L[12], L[13], L[14], L[15], L[16]>>,
                            !.raised = TRUE]
          ELSE limbs(L[11], L[12], L[13], L[14], L[15], L[16],
                     midpoint(point(23), point(24)), midpoint(point(11), point(12)))
  IN IF Len(pose_list) < 16 THEN none
     ELSE IF Len(pose_list) <= 16 THEN none
     ELSE all(arms)

\* What json.loads gives for a field of a joint: a list of numbers, a number
\* (not zero), or nothing when the key is absent
JList(v) == [t |-> "list", v |-> v]
Absent == [t |-> "absent", v |-> <<>>]

\* A joint entry of the frame: an object with the fields rotation_wzxy and
\* location, or a number in place of the object
Joint(rotation_wzxy, loc) ==
  [t |-> "object", rotation_wzxy |-> rotation_wzxy, location |-> loc]

\* bone_map.items(): the entries in the order of props.mapping_collection,
\* which lists the joints in this order
MappingOrder == <<"Hips", "Spine", "LeftShoulder", "LeftElbow", "LeftWrist", "LeftHand">>

\* apply_rotation(pose_bone, rotation_data), lines 73-97, on s = [rot, loc,
\* rotw: bones whose rotation was set, locw: the location was set, raised]:
\* len() of a number raises TypeError at line 75, outside the try
rotate(s, blender_name, rotation_data) ==
  IF rotation_data.t = "number" THEN [s EXCEPT !.raised = TRUE]
  ELSE IF Len(rotation_data.v) = 4
         THEN [s EXCEPT !.rot[blender_name] = final_quat(blender_name, rotation_data.v),
                        !.rotw = @ \cup {blender_name}]
         ELSE s

\* The loop of map_whole_body (lines 115-122) and of map_hands_only (lines
\* 132-139, hands TRUE) over the entries of the bone map that are left; an
\* exception ends it
RECURSIVE joints_loop(_, _, _, _)
joints_loop(s, names, mocap_joints, hands) ==
  IF names = <<>> \/ s.raised THEN s
  ELSE LET mocap_name == Head(names)
           blender_name == bone_map[mocap_name]
           s1 == IF hands /\ mocap_name \notin HandJoints THEN s
                 ELSE IF mocap_name \notin DOMAIN mocap_joints THEN s
                 ELSE IF blender_name \notin DOMAIN s.rot THEN s
                 ELSE IF mocap_joints[mocap_name].t # "object"
                        THEN [s EXCEPT !.raised = TRUE]
                 ELSE IF mocap_joints[mocap_name].rotation_wzxy.t = "absent" THEN s
                 ELSE rotate(s, blender_name, mocap_joints[mocap_name].rotation_wzxy)
       IN joints_loop(s1, Tail(names), mocap_joints, hands)

\* map_whole_body(armature_obj, mocap_joints), lines 100-122: the location
\* of the bone Hips is mapped to (lines 106-112), then the loop over
\* bone_map.items()
map_whole_body(s, mocap_joints) ==
  LET hips_bone == bone_map["Hips"]
      entry == mocap_joints["Hips"]
      located ==
        IF "Hips" \notin DOMAIN mocap_joints \/ "Hips" \notin DOMAIN bone_map THEN s
        ELSE IF hips_bone \notin DOMAIN s.rot THEN s
        ELSE IF entry.t # "object" THEN [s EXCEPT !.raised = TRUE]
        ELSE IF entry.location.t = "absent" THEN s
        ELSE IF entry.location.t = "number" THEN [s EXCEPT !.raised = TRUE]
        ELSE IF Len(entry.location.v) = 3
               THEN [s EXCEPT !.loc[hips_bone] = entry.location.v, !.locw = TRUE]
               ELSE s
  IN joints_loop(located, SelectSeq(MappingOrder, LAMBDA j : j \in DOMAIN bone_map),
                 mocap_joints, FALSE)

\* map_hands_only(armature_obj, mocap_joints), lines 125-139
map_hands_only(s, mocap_joints) ==
  joints_loop(s, SelectSeq(MappingOrder, LAMBDA j : j \in DOMAIN bone_map),
              mocap_joints, TRUE)

\* Mutant of dispatch_mode: the mode named in the frame decides.
dispatch_mode_OfFrame(data) == data.mode

\* lines 175-179: the mode that selects the mapping is props.mocap_mode; the
\* 'mode' of the frame is read at line 146 and not used
dispatch_mode(data) == mocap_mode

\* Mutant of pose_ready: the landmarks and the joints are applied whatever
\* the object and its mode are.
pose_ready_Unchecked(armature_obj) == TRUE

\* lines 152-165: the object is an armature and is in pose mode, or
\* bpy.ops.object.mode_set(mode='POSE') puts it there
pose_ready(armature_obj) ==
  /\ armature_obj # NoObject
  /\ armature_obj.type = "ARMATURE"
  /\ armature_obj.mode = "POSE" \/ armature_obj.posable

\* apply_mocap_data(armature_obj, mocap_data_json), lines 142-189: the
\* rotations and locations it leaves, the mode of the object, what it
\* returns, and for each path the bones it set.  Every exit returns None:
\* the early returns of lines 154 and 165 and the end of the function.
apply_mocap_data(armature_obj, data) ==
  LET quiet == [rot |-> rotation_quaternion, loc |-> location, mode |-> armature_obj.mode,
                ret |-> "None", lm |-> {}, lmrot |-> rotation_quaternion, used |-> <<>>,
                lmraised |-> FALSE, rotw |-> {}, locw |-> FALSE, raised |-> FALSE]
      \* lines 167-172
      landmarks ==
        IF data.mediapipe.present
          THEN apply_mediapipe_pose(rotation_quaternion, data.mediapipe.pose)
          ELSE [rot |-> rotation_quaternion, lm |-> {}, used |-> <<>>, raised |-> FALSE]
      \* lines 175-179
      mapped(s) ==
        IF dispatch_mode(data) = "WHOLE_BODY" THEN map_whole_body(s, data.joints)
        ELSE IF dispatch_mode(data) = "HANDS_ONLY" THEN map_hands_only(s, data.joints)
        ELSE s
      result(m, s) ==
        [rot |-> s.rot, loc |-> s.loc, mode |-> "POSE", ret |-> "None",
         lm |-> m.lm, lmrot |-> m.rot, used |-> m.used, lmraised |-> m.raised,
         rotw |-> s.rotw, locw |-> s.locw, raised |-> s.raised]
      joints(m) ==
        result(m, mapped([rot |-> m.rot, loc |-> location,
                          rotw |-> {}, locw |-> FALSE, raised |-> FALSE]))
  IN IF ~pose_ready(armature_obj) THEN quiet ELSE joints(landmarks)

\* One timer tick of MOCAP_OT_live_capture.modal with a frame in hand
\* (operators.py, lines 38-55): without a target the operator reports a
\* warning, otherwise it calls apply_mocap_data and drops what it returns.
\* The record of the call keeps, as seen, the smoothed landmarks of the last
\* call before this one that used any.
tick ==
  /\ \E mocap_data \in feed :
       IF target_armature = NoObject
         THEN /\ call' = [op |-> "modal", frame |-> mocap_data, ret |-> "", report |-> "WARNING"]
              /\ UNCHANGED <<target_armature, rotation_quaternion, location>>
         ELSE \E r \in {apply_mocap_data(target_armature, mocap_data)} :
                 /\ rotation_quaternion' = r.rot
                 /\ location' = r.loc
                 /\ target_armature' = [target_armature EXCEPT !.mode = r.mode]
                 /\ call' = [op |-> "apply_mocap_data", frame |-> mocap_data, ret |-> r.ret,
                             report |-> "", lm |-> r.lm, lmrot |-> r.lmrot, used |-> r.used,
                             seen |-> IF call.op # "apply_mocap_data" THEN <<>>
                                      ELSE IF call.used # <<>> THEN call.used
                                      ELSE call.seen,
                             lmraised |-> r.lmraised, rotw |-> r.rotw,
                             locw |-> r.locw, raised |-> r.raised]
  /\ UNCHANGED <<receiverVars, CALIBRATION_OFFSETS, bone_map, mocap_mode, feed, bone_length,
                 is_running, data_active, MOCAP_RECEIVER, handlers, tpc>>

\* The user switches props.mocap_mode in the panel (ui_panel.py, line 78)
set_mocap_mode ==
  /\ \E m \in {"WHOLE_BODY", "HANDS_ONLY"} : m # mocap_mode /\ mocap_mode' = m
  /\ call' = [op |-> "set_mocap_mode", frame |-> <<>>, ret |-> "", report |-> ""]
  /\ UNCHANGED <<receiverVars, CALIBRATION_OFFSETS, target_armature, rotation_quaternion,
                 bone_map, location, feed, bone_length, is_running, data_active,
                 MOCAP_RECEIVER, handlers, tpc>>

\* ------------------------------------------------- frames and scenes
\* The bone map of the scene: the joints of auto_map_mixamorig (lines 33-47)
\* that the rig has a bone for, and an entry for the joint LeftHand
HandMap ==
  [j \in {"Hips", "Spine", "LeftShoulder", "LeftElbow", "LeftWrist", "LeftHand"} |->
     CASE j = "Hips" -> "mixamorig:Hips"
       [] j = "Spine" -> "mixamorig:Spine"
       [] j = "LeftShoulder" -> "mixamorig:LeftArm"
       [] j = "LeftElbow" -> "mixamorig:LeftForeArm"
       [] OTHER -> "mixamorig:LeftHand"]

\* The joints a frame may carry and a well-formed entry for each; the root
\* joint also carries a location
FrameJoints == {"Hips", "Spine", "LeftWrist", "LeftHand"}
Good(j) ==
  IF j = "Hips" THEN Joint(JList(<<0, 1, 0, 0>>), JList(<<2, 4, 6>>))
  ELSE Joint(JList(<<0, 1, 0, 0>>), Absent)
GoodJoints(D) == [j \in D |-> Good(j)]

\* A frame: its mode, its joints and mediapipe_data, which is None or a
\* dictionary with the list 'pose'
Frame(mode, joints, present, pose_list) ==
  [mode |-> mode, joints |-> joints, mediapipe |-> [present |-> present, pose |-> pose_list]]
FrameModes == {"WHOLE_BODY", "HANDS_ONLY"}

\* A landmark list of n points: the left shoulder, elbow and wrist (indices
\* 11, 13, 15) are given, the right arm is stretched out, hips and knees are
\* below the shoulders and the nose above; every other point is the centre
Pose(n, shoulder, elbow, wrist) ==
  [i \in 1..n |->
     CASE i - 1 = 0 -> <<500, 200, 0>>
       [] i - 1 = 11 -> shoulder
       [] i - 1 = 13 -> elbow
       [] i - 1 = 15 -> wrist
       [] i - 1 = 12 -> <<400, 400, 0>>
       [] i - 1 = 14 -> <<300, 400, 0>>
       [] i - 1 = 16 -> <<200, 400, 0>>
       [] i - 1 = 23 -> <<550, 700, 0>>
       [] i - 1 = 24 -> <<450, 700, 0>>
       [] i - 1 = 25 -> <<550, 850, 0>>
       [] i - 1 = 26 -> <<450, 850, 0>>
       [] OTHER -> <<500, 500, 0>>]

\* Left arms: bent at the elbow, stretched out, and bent the other way
Arms ==
  << << <<600, 400, 0>>, <<700, 400, 0>>, <<700, 300, 0>> >>,
     << <<600, 400, 0>>, <<700, 400, 0>>, <<800, 400, 0>> >>,
     << <<600, 400, 0>>, <<600, 500, 0>>, <<700, 500, 0>> >> >>

\* The lengths of the landmark lists: none, below and at the bound of line
\* 236, at the index of the right wrist, at the index of the last point the
\* segment table reads, and the 33 points MediaPipe Pose gives
PoseLengths == {0, 15, 16, 17, 26, 27, 33}

\* The frames of the specification of the joints: every set of well-formed
\* joints, the full set in both modes; a full frame with one other entry (no
\* object, a rotation that is a number, too short or absent; for the spine a
\* rotation of norm 0 or of norm 2; for the root a location that is a number
\* or too short); and frames that carry landmarks as well
JointFrames ==
  LET number == [t |-> "number", v |-> <<>>]
      BadEntries ==
        {[t |-> "number", rotation_wzxy |-> Absent, location |-> Absent],
         Joint(number, Absent), Joint(JList(<<1, 0, 0>>), Absent), Joint(Absent, Absent)}
      NotUnit == {Joint(JList(<<0, 0, 0, 0>>), Absent), Joint(JList(<<2, 0, 0, 0>>), Absent)}
      BadLocations ==
        {Joint(JList(<<0, 1, 0, 0>>), number), Joint(JList(<<0, 1, 0, 0>>), JList(<<2, 4>>))}
      complete == GoodJoints(FrameJoints)
  IN {Frame("WHOLE_BODY", GoodJoints(D), FALSE, <<>>) : D \in SUBSET FrameJoints}
       \cup {Frame("HANDS_ONLY", complete, FALSE, <<>>)}
       \cup {Frame("WHOLE_BODY", [complete EXCEPT ![j] = bad], FALSE, <<>>) :
               j \in FrameJoints, bad \in BadEntries}
       \cup {Frame("WHOLE_BODY", [complete EXCEPT !["Spine"] = bad], FALSE, <<>>) :
               bad \in NotUnit}
       \cup {Frame("WHOLE_BODY", [complete EXCEPT !["Hips"] = bad], FALSE, <<>>) :
               bad \in BadLocations}
       \cup {Frame("WHOLE_BODY", GoodJoints(D), TRUE,
                    Pose(33, Arms[1][1], Arms[1][2], Arms[1][3])) : D \in {{}, FrameJoints}}

\* The frames of the specification of the landmarks: every length and every
\* arm, alone or with one joint
LandmarkFrames ==
  {Frame("WHOLE_BODY", GoodJoints(D), TRUE, Pose(n, Arms[a][1], Arms[a][2], Arms[a][3])) :
     D \in {{}, {"Spine"}}, n \in PoseLengths, a \in DOMAIN Arms}

\* The scene of retargeting: the rig at rest, calibrated earlier for the
\* spine only, the bone map filled, and a target: none, a mesh, or the
\* armature in object mode, for which mode_set succeeds or raises
SceneInit ==
  /\ InitReceiver
  /\ startsLeft = 0 /\ stopsLeft = 0 /\ bytesLeft = 0 /\ failsLeft = 0 /\ drive = FALSE
  /\ CALIBRATION_OFFSETS = [b \in {"mixamorig:Spine"} |-> <<0, 0, 1, 0>>]
  /\ target_armature \in
       {NoObject, [type |-> "MESH", mode |-> "OBJECT", posable |-> FALSE]}
         \cup {[type |-> "ARMATURE", mode |-> "OBJECT", posable |-> c] : c \in BOOLEAN}
  /\ rotation_quaternion = [b \in {RigBones[i] : i \in DOMAIN RigBones} |-> Identity]
  /\ location = [b \in {RigBones[i] : i \in DOMAIN RigBones} |-> <<0, 0, 0>>]
  /\ bone_map = HandMap
  /\ mocap_mode = "WHOLE_BODY"
  /\ call = NoCall
  /\ NoSession

\* Every bone of the rig is 0.3 long
ApplyInit ==
  /\ SceneInit
  /\ feed = JointFrames
  /\ bone_length = [b \in {RigBones[i] : i \in DOMAIN RigBones} |-> 300]
LandmarkInit ==
  /\ SceneInit
  /\ feed = LandmarkFrames
  /\ bone_length = [b \in {RigBones[i] : i \in DOMAIN RigBones} |-> 300]

ApplyNext == tick \/ set_mocap_mode

ApplySpec == ApplyInit /\ [][ApplyNext]_vars
LandmarkSpec == LandmarkInit /\ [][ApplyNext]_vars

\* ------------------------------------------------- the two-bone solver
\* The bones of an arm are up to MaxBoneLength units of 1e-3 long, and the
\* wrist is up to MaxReach units away from the shoulder
MaxBoneLength == 3
MaxReach == 7

\* The rig at rest in pose mode, calibrated for the upper arm, with arm bones
\* of any length
IKInit ==
  /\ InitReceiver
  /\ startsLeft = 0 /\ stopsLeft = 0 /\ bytesLeft = 0 /\ failsLeft = 0 /\ drive = FALSE
  /\ CALIBRATION_OFFSETS = [b \in {"mixamorig:LeftArm"} |-> <<0, 0, 1, 0>>]
  /\ target_armature = [type |-> "ARMATURE", mode |-> "POSE", posable |-> TRUE]
  /\ rotation_quaternion = [b \in {RigBones[i] : i \in DOMAIN RigBones} |-> Identity]
  /\ location = [b \in {RigBones[i] : i \in DOMAIN RigBones} |-> <<0, 0, 0>>]
  /\ bone_map = HandMap
  /\ mocap_mode = "WHOLE_BODY"
  /\ call = NoCall
  /\ feed = {}
  /\ NoSession
  /\ \E L1 \in 1..MaxBoneLength, L2 \in 1..MaxBoneLength :
       bone_length = [b \in {RigBones[i] : i \in DOMAIN RigBones} |->
                        IF b = "mixamorig:LeftArm" THEN L1
                        ELSE IF b = "mixamorig:LeftForeArm" THEN L2
                        ELSE 300]

\* A call of two_bone_ik for the left arm, or for an arm whose forearm the
\* rig does not have; the shoulder is the origin and the wrist lies along the
\* axis of the bone, against it, or off the axes
solve_arm ==
  /\ \E tip_vec \in {<<0, d, 0>> : d \in 0..MaxReach} \cup {<<0, -1, 0>>, <<1, 1, 0>>},
        lower_name \in {"mixamorig:LeftForeArm", "mixamorig:RightForeArm"} :
       \E r \in {two_bone_ik([rot |-> rotation_quaternion, lm |-> {}], <<0, 0, 0>>,
                              <<0, 0, 0>>, tip_vec, "mixamorig:LeftArm", lower_name)} :
          /\ rotation_quaternion' = r.rot
          /\ call' = [op |-> "two_bone_ik", tip |-> tip_vec, upper |-> "mixamorig:LeftArm",
                      lower |-> lower_name, joint |-> r.joint, lm |-> r.lm,
                      before |-> rotation_quaternion]
  /\ UNCHANGED <<receiverVars, CALIBRATION_OFFSETS, target_armature, bone_map, sceneVars>>

\* A call of set_bone_direction for a bone with an offset, a bone without
\* one, or a bone the rig does not have; the two points coincide, or the
\* second lies along the axis (0, 1, 0), against it, or off it
point_bone ==
  /\ \E source_vec \in {<<0, 0, 0>>, <<1, 1, 0>>},
        target_vec \in {<<0, 0, 0>>, <<1, 1, 0>>, <<0, 2, 0>>, <<0, -2, 0>>},
        blender_bone_name \in {"mixamorig:LeftArm", "mixamorig:LeftForeArm",
                               "mixamorig:RightArm"} :
       \E r \in {set_bone_direction([rot |-> rotation_quaternion, lm |-> {}], source_vec,
                                     target_vec, blender_bone_name)} :
          /\ rotation_quaternion' = r.rot
          /\ call' = [op |-> "set_bone_direction", source |-> source_vec,
                      target |-> target_vec, bone |-> blender_bone_name, lm |-> r.lm,
                      before |-> rotation_quaternion]
  /\ UNCHANGED <<receiverVars, CALIBRATION_OFFSETS, target_armature, bone_map, sceneVars>>

IKSpec == IKInit /\ [][solve_arm \/ point_bone]_vars

\* ------------------------------------------------------------------ system
Listener(t) ==
  \/ OuterLoop(t) \/ ConnectLoop(t) \/ ReadStatus(t) \/ MarkReconnecting(t)
  \/ MarkConnecting(t) \/ ConnectOk(t) \/ ConnectFail(t) \/ MarkConnected(t)
  \/ MarkConnectFailed(t) \/ Backoff(t) \/ AfterConnect(t) \/ ReceiveLoop(t)
  \/ RecvTimeout(t) \/ RecvChunk(t) \/ RecvClosed(t) \/ RecvReset(t) \/ RecvError(t)
  \/ MarkPeerClosed(t) \/ ProcessLine(t) \/ CheckFull(t) \/ Evict(t) \/ Insert(t)
  \/ MarkReset(t) \/ MarkError(t) \/ ErrorPause(t) \/ CloseSocket(t) \/ ThreadEnd(t)

Main == start \/ stop \/ stopJoin \/ stopFinish \/ get_latest_data \/ Drain \/ Return

Next == Main \/ \E t \in Threads : Listener(t)

Spec == Init /\ [][Next]_vars

\* The receiver with two threads that may call stop(), the main thread and
\* one other, and a peer that accepts every connection and sends nothing.
StopInit ==
  /\ InitReceiver
  /\ CalIdle
  /\ startsLeft = 1 /\ stopsLeft = 1 /\ bytesLeft = 0 /\ failsLeft = 0 /\ drive = FALSE

QuietListener(t) ==
  \/ OuterLoop(t) \/ ConnectLoop(t) \/ ReadStatus(t) \/ MarkReconnecting(t)
  \/ MarkConnecting(t) \/ ConnectOk(t) \/ MarkConnected(t) \/ AfterConnect(t)
  \/ ReceiveLoop(t) \/ RecvTimeout(t) \/ CloseSocket(t) \/ ThreadEnd(t)

StopNext ==
  \/ start \/ stop \/ stopJoin \/ stopFinish
  \/ stop_other \/ stopJoin_other \/ stopFinish_other
  \/ \E t \in Threads : QuietListener(t)

StopSpec == StopInit /\ [][StopNext]_vars

\* The receiver started, stopped once and started again by the main thread,
\* with a peer that accepts every connection and sends nothing, and recv()
\* calls that time out or fail with an error other than a reset, an aborted
\* connection among them.
RecoverInit ==
  /\ InitReceiver
  /\ CalIdle
  /\ startsLeft = MaxStarts /\ stopsLeft = 1
  /\ bytesLeft = 0 /\ failsLeft = 0 /\ drive = FALSE

FaultyListener(t) ==
  \/ QuietListener(t) \/ RecvError(t) \/ RecvAborted(t) \/ MarkError(t) \/ ErrorPause(t)

RecoverNext ==
  \/ start \/ stop \/ stopJoin \/ stopFinish
  \/ \E t \in Threads : FaultyListener(t)

\* The main thread goes on inside stop(): join(timeout=1.0) returns after one
\* second at the latest, whatever the listener thread does, and lines 58-61
\* do not wait for anything.  Nothing is assumed of the listener threads:
\* they may stay where they are for ever.
StopFairness == WF_vars(stopJoin) /\ WF_vars(stopFinish)

AbandonSpec == RecoverInit /\ [][RecoverNext]_vars /\ StopFairness

\* A listener thread that can take a step eventually takes one: the thread
\* is a daemon thread scheduled by the interpreter, and each of its waits
\* (connect, recv, sleep) is bounded by a timeout.
ListenerFairness == \A t \in Threads : WF_vars(FaultyListener(t))

RecoverSpec == RecoverInit /\ [][RecoverNext]_vars /\ ListenerFairness

\* ------------------------------------------------------------ the operators
\* MOCAP_OT_live_capture and MOCAP_OT_stop_capture (operators.py).  Blender
\* runs operators and modal handlers on its main thread, one call at a time:
\* a call begins when no other call is in progress (mpc and tpc are idle).
\* The fields running, thread, _status and data_queue are those of the
\* receiver MOCAP_RECEIVER names; a receiver and the handler installed with
\* it carry the number of the receiver's listener thread.

\* MOCAP_OT_live_capture.execute, lines 68-106.  Lines 77-81 pick an armature
\* of the scene, if it has one, when no target is set; auto_map_mixamorig
\* (mocap_logic.py, lines 20-62) then replaces the bone map by the joints of
\* its table for which the rig has the bone of that name.  Line 93 makes a new
\* receiver and line 94 starts it.  A listener of an earlier receiver that is
\* still alive belongs to an object nothing refers to any more: it is left
\* out from here on.
execute ==
  /\ mpc = "idle" /\ tpc[1] = "idle"
  /\ startsLeft > 0
  /\ startsLeft' = startsLeft - 1
  /\ IF is_running
       THEN /\ call' = [op |-> "execute", handler |-> 0, event |-> "", status |-> "",
                        frame |-> None, applied |-> FALSE, ret |-> "CANCELLED"]
            /\ UNCHANGED <<rcvVars, pc, reconnect_delay, target_armature, bone_map,
                           is_running, data_active, MOCAP_RECEIVER, handlers>>
       ELSE /\ \E arm \in {NoObject, [type |-> "ARMATURE", mode |-> "OBJECT", posable |-> TRUE]} :
                 LET target == IF target_armature = NoObject THEN arm ELSE target_armature
                     wanted == [j \in {"Hips", "Spine"} |-> "mixamorig:" \o j]
                 IN /\ target_armature' = target
                    /\ bone_map' =
                         IF target.type = "ARMATURE"
                           THEN [j \in {k \in DOMAIN wanted :
                                          wanted[k] \in DOMAIN rotation_quaternion} |-> wanted[j]]
                           ELSE bone_map
            /\ running' = TRUE
            /\ thread' = NewThread
            /\ _status' = STATUS_DISCONNECTED
            /\ data_queue' = <<>>
            /\ pc' = [t \in Threads |-> IF t = NewThread THEN "L94"
                                        ELSE IF pc[t] = "unborn" THEN "unborn" ELSE "done"]
            /\ reconnect_delay' = [reconnect_delay EXCEPT ![NewThread] = DELAY_FLOOR]
            /\ MOCAP_RECEIVER' = NewThread
            /\ handlers' = handlers \cup {NewThread}
            /\ is_running' = TRUE
            /\ data_active' = FALSE
            /\ call' = [op |-> "execute", handler |-> NewThread, event |-> "", status |-> "",
                        frame |-> None, applied |-> FALSE, ret |-> "RUNNING_MODAL"]
  /\ UNCHANGED <<sock, buffer, mocap_frame, e, mainVars, stopsLeft, bytesLeft, failsLeft, drive,
                 frameHist, backoffHist, handoffHist, stopped, opc, CALIBRATION_OFFSETS,
                 rotation_quaternion, location, mocap_mode, feed, bone_length, tpc>>

\* MOCAP_OT_stop_capture.execute, lines 143-156: receiver.stop() and nothing
\* else when there is a running receiver, otherwise the two flags are cleared
stop_capture ==
  /\ tpc[1] = "idle"
  /\ IF MOCAP_RECEIVER # 0 /\ running
       THEN stop
       ELSE /\ mpc = "idle"
            /\ stopsLeft > 0
            /\ stopsLeft' = stopsLeft - 1
            /\ is_running' = FALSE
            /\ data_active' = FALSE
            /\ call' = [op |-> "stop_capture", handler |-> 0, event |-> "", status |-> "",
                        frame |-> None, applied |-> FALSE, ret |-> "FINISHED"]
            /\ UNCHANGED <<rcvVars, locVars, mainVars, startsLeft, bytesLeft, failsLeft, drive,
                           frameHist, backoffHist, handoffHist, stopped, opc,
                           CALIBRATION_OFFSETS, target_armature, rotation_quaternion, bone_map,
                           location, mocap_mode, feed, bone_length, MOCAP_RECEIVER, handlers,
                           tpc>>

\* modal, lines 22-27, for any event: without a running receiver the handler
\* passes the event through, or, when props.is_running is set, enters
\* cancel(), whose lines 120-121 call stop() on the receiver if there is one
modal_stopped(h) ==
  /\ h \in handlers
  /\ mpc = "idle" /\ tpc[1] = "idle"
  /\ MOCAP_RECEIVER = 0 \/ ~running
  /\ IF is_running
       THEN /\ tpc' = <<"L124", h>>
            /\ IF MOCAP_RECEIVER # 0
                 THEN /\ running' = FALSE
                      /\ stopped' = [t \in Threads |-> stopped[t] \/ pc[t] # "unborn"]
                      /\ mpc' = IF thread # 0 THEN "L57" ELSE "L60"
                 ELSE UNCHANGED <<running, stopped, mpc>>
            /\ UNCHANGED call
       ELSE UNCHANGED <<running, stopped, mpc, tpc, call>>
  /\ UNCHANGED <<thread, _status, data_queue, locVars, latest, envVars, frameHist, backoffHist,
                 handoffHist, opc, CALIBRATION_OFFSETS, target_armature, rotation_quaternion,
                 bone_map, location, mocap_mode, feed, bone_length, is_running, data_active,
                 MOCAP_RECEIVER, handlers>>

\* cancel, lines 124-135, after stop() has returned: the timer is removed,
\* the flags and the receiver reference are cleared, and the handler ends
\* with {'CANCELLED'}
cancel ==
  /\ tpc[1] = "L124"
  /\ mpc = "idle"
  /\ handlers' = handlers \ {tpc[2]}
  /\ is_running' = FALSE
  /\ data_active' = FALSE
  /\ MOCAP_RECEIVER' = 0
  /\ tpc' = <<"idle", 0>>
  /\ call' = [op |-> "cancel", handler |-> tpc[2], event |-> "", status |-> "",
              frame |-> None, applied |-> FALSE, ret |-> "CANCELLED"]
  /\ UNCHANGED <<receiverVars, CALIBRATION_OFFSETS, target_armature, rotation_quaternion,
                 bone_map, location, mocap_mode, feed, bone_length>>

\* modal, lines 30-38 and 60-65, with a running receiver: an event that is no
\* timer event passes through; a timer event copies receiver.running to
\* props.is_running, reads the status and, when it is CONNECTED, calls
\* get_latest_data() (line 170: latest = None), else clears data_active.
\* While the call runs, its record keeps what the connection had received
\* when the status was read.
modal(h) ==
  /\ h \in handlers
  /\ mpc = "idle" /\ tpc[1] = "idle"
  /\ MOCAP_RECEIVER # 0 /\ running
  /\ \E event \in {"TIMER", "MOUSEMOVE"} :
       IF event # "TIMER"
         THEN UNCHANGED <<mainVars, clean, is_running, data_active, tpc, call>>
         ELSE /\ is_running' = running
              /\ IF _status = STATUS_CONNECTED
                   THEN /\ latest' = None
                        /\ mpc' = "L173"
                        /\ clean' = \A t \in Threads : pc[t] \notin Enqueuing
                        /\ tpc' = <<"L38", h>>
                        /\ call' = [op |-> "modal", handler |-> h, event |-> event,
                                    status |-> _status, received |-> stream[thread],
                                    ret |-> ""]
                        /\ UNCHANGED data_active
                   ELSE /\ data_active' = FALSE
                        /\ call' = [op |-> "modal", handler |-> h, event |-> event,
                                    status |-> _status, frame |-> None, applied |-> FALSE,
                                    ret |-> "PASS_THROUGH"]
                        /\ UNCHANGED <<mainVars, clean, tpc>>
  /\ UNCHANGED <<rcvVars, locVars, envVars, frameHist, backoffHist, putsSince, lastPut, lastCall,
                 stopped, opc, CALIBRATION_OFFSETS, target_armature, rotation_quaternion,
                 bone_map, location, mocap_mode, feed, bone_length, MOCAP_RECEIVER, handlers>>

\* modal, lines 40-58, when get_latest_data() has returned: None clears
\* data_active; a frame without a target is reported and the flag is left as
\* it is; a frame with a target sets the flag and goes to apply_mocap_data.
\* The number on the wire stands for the frame's document: 1 for a frame with
\* the joint Hips, any other for a frame without joints.
modal_apply ==
  /\ tpc[1] = "L38"
  /\ mpc = "idle"
  /\ tpc' = <<"idle", 0>>
  /\ LET mocap_data == lastCall.ret
         document == Frame("WHOLE_BODY", GoodJoints(IF mocap_data.val = 1 THEN {"Hips"} ELSE {}),
                           FALSE, <<>>)
         done(applied) == [op |-> "modal", handler |-> tpc[2], event |-> "TIMER",
                           status |-> STATUS_CONNECTED, frame |-> mocap_data,
                           applied |-> applied, ret |-> "PASS_THROUGH"]
     IN IF mocap_data = None
          THEN /\ data_active' = FALSE
               /\ call' = done(FALSE)
               /\ UNCHANGED <<target_armature, rotation_quaternion, location>>
          ELSE IF target_armature = NoObject
                 THEN /\ call' = done(FALSE)
                      /\ UNCHANGED <<data_active, target_armature, rotation_quaternion, location>>
                 ELSE \E r \in {apply_mocap_data(target_armature, document)} :
                         /\ data_active' = TRUE
                         /\ rotation_quaternion' = r.rot
                         /\ location' = r.loc
                         /\ target_armature' = [target_armature EXCEPT !.mode = r.mode]
                         /\ call' = done(TRUE)
  /\ UNCHANGED <<receiverVars, CALIBRATION_OFFSETS, bone_map, mocap_mode, feed, bone_length,
                 is_running, MOCAP_RECEIVER, handlers>>

\* The add-on as loaded, in a scene without a target.  Either the user
\* starts one session and the peer sends up to HandoffBytes bytes, closing
\* its connections when it likes, or the user starts and stops up to twice
\* and the peer sends nothing.  The peer accepts every connection and recv()
\* raises no error.
DriveInit ==
  /\ InitReceiver
  /\ CalIdle
  /\ \/ startsLeft = 1 /\ stopsLeft = 0 /\ bytesLeft = HandoffBytes
     \/ startsLeft = MaxStarts /\ stopsLeft = MaxStops /\ bytesLeft = 0
  /\ failsLeft = 0 /\ drive = TRUE

\* Between two operator calls the user may clear the target in the panel
DriveNext ==
  \/ execute \/ stop_capture \/ stopJoin \/ stopFinish \/ cancel \/ Drain \/ Return
  \/ modal_apply
  \/ /\ mpc = "idle" /\ tpc[1] = "idle"
     /\ target_armature # NoObject
     /\ select_target
     /\ target_armature' = NoObject
  \/ \E h \in Threads : modal_stopped(h) \/ modal(h)
  \/ \E t \in Threads :
       \/ QuietListener(t) \/ RecvChunk(t) \/ RecvClosed(t) \/ MarkPeerClosed(t)
       \/ ProcessLine(t) \/ CheckFull(t) \/ Evict(t) \/ Insert(t)
       \/ MarkError(t) \/ ErrorPause(t)

DriveSpec == DriveInit /\ [][DriveNext]_vars

\* ================================================================ claims
\* At most one listener thread has ever been spawned: one producer.
OneProducer == Cardinality({t \in Threads : pc[t] # "unborn"}) <= 1

\* C1: the handoff queue never holds more than one pending frame, the frame
\* pending is the newest one inserted, and when the one listener thread
\* reaches put_nowait nothing is pending any more: a pending frame was
\* evicted (or taken by get_latest_data) before the new one is inserted.
C1_SingleSlot ==
  /\ Len(data_queue) <= 1
  /\ data_queue # <<>> => data_queue = <<lastPut>>
  /\ OneProducer => \A t \in Threads : pc[t] = "L139" => data_queue = <<>>

\* C1 witness: with nobody polling, a frame was inserted earlier and the
\* thread is about to insert the next one into the emptied queue.
C1_Witness ==
  \E t \in Threads :
    /\ ~drive /\ pc[t] = "L139" /\ data_queue = <<>>
    /\ lastPut # None /\ mocap_frame[t].id = lastPut.id + 1

\* C2: a get_latest_data() call that no enqueue overlaps returns the frame
\* inserted last since the previous call returned, which with one producer is
\* the newest frame decoded, and returns None when nothing was inserted since.
C2_LatestOnly ==
  (lastCall.called /\ lastCall.clean) =>
     /\ lastCall.ret = (IF lastCall.puts = 0 THEN None ELSE lastCall.last)
     /\ (OneProducer /\ lastCall.puts > 0) => lastCall.ret.id = lastCall.dec

\* C2 witness: two frames were enqueued between two calls and the call
\* returned the second.
C2_Witness ==
  /\ lastCall.called /\ lastCall.clean /\ lastCall.puts >= 2
  /\ lastCall.ret = lastCall.last /\ lastCall.ret.id >= 2

\* C3: with one producer, every frame get_latest_data() returns was decoded
\* after the frame returned before it: no duplicate, no reordering.
C3_Subsequence ==
  (OneProducer /\ lastCall.called /\ lastCall.ret # None) => lastCall.ret.id > lastCall.prev

\* C3 witness: two successive frames were returned by two calls.
C3_Witness ==
  OneProducer /\ lastCall.called /\ lastCall.prev >= 1 /\ lastCall.ret.id > lastCall.prev

\* C4 (as claimed): with one producer and one consumer no enqueue raises: the
\* listener never handles queue.Empty or queue.Full from the handoff.
C4_HandoffNeverRaises ==
  OneProducer => \A t \in Threads : e[t] \notin {"Empty", "Full"}

\* The frames the line loop of lines 127-144 decodes when the whole stream is
\* in the buffer at once.
RECURSIVE Contiguous(_)
Contiguous(buf) ==
  IF ~HasNL(buf) THEN <<>>
  ELSE LET r == LineStep(buf)
       IN (IF r.kind = "frame" THEN <<r.val>> ELSE <<>>) \o Contiguous(r.buffer)

\* The newline-terminated lines of a stream, and what follows the last newline.
RECURSIVE Lines(_)
Lines(s) == IF ~HasNL(s) THEN <<>> ELSE <<split(s)[1]>> \o Lines(split(s)[2])

RECURSIVE Remainder(_)
Remainder(s) == IF ~HasNL(s) THEN s ELSE Remainder(split(s)[2])

IsSuffix(a, b) == Len(a) <= Len(b) /\ SubSeq(b, Len(b) - Len(a) + 1, Len(b)) = a

\* C5 (as claimed): whenever the listener is back at recv() with the line loop
\* finished, the frames decoded on the connection are those decoded from the
\* bytes received so far taken as one contiguous buffer.
C5_ChunkIndependent ==
  \A t \in Threads : pc[t] = "L116" => decoded[t] = Contiguous(stream[t])

\* A stream of exactly three lines: valid, malformed, valid.
ValidBadValid(s) ==
  /\ Len(Lines(s)) = 3
  /\ Remainder(s) = <<>>
  /\ json_loads(Lines(s)[1]) # JSONDecodeError
  /\ strip(Lines(s)[2]) # <<>> /\ json_loads(Lines(s)[2]) = JSONDecodeError
  /\ json_loads(Lines(s)[3]) # JSONDecodeError

\* C6 (as claimed): when the bytes received on a connection are a valid line, a
\* malformed line and a valid line, both valid lines have been decoded and
\* exactly one decode failure was reported.
C6_MalformedBetweenValid ==
  \A t \in Threads :
    (pc[t] = "L116" /\ ValidBadValid(stream[t])) =>
       /\ decoded[t] = <<json_loads(Lines(stream[t])[1]), json_loads(Lines(stream[t])[3])>>
       /\ failures[t] = 1

C8_PartialDiscarded ==
  [][\A t \in Threads :
       /\ (pc[t] = "L120" /\ pc'[t] # "L120") =>
             (_status' = STATUS_RECONNECTING /\ pc'[t] = "L160")
       /\ \A i \in 1..Len(decoded'[t]) :
             \E j \in 1..Len(Lines(stream'[t])) :
                json_loads(Lines(stream'[t])[j]) = decoded'[t][i]
       /\ pc'[t] = "L116" => IsSuffix(buffer'[t], stream'[t])]_vars

\* C8 witness: the peer closed after a partial message, and the thread is at
\* the first recv() of the next connection with an empty buffer.
C8_Witness ==
  \E t \in Threads :
    /\ partial[t]
    /\ pc[t] = "L116" /\ stream[t] = <<>> /\ buffer[t] = <<>>
    /\ _status = STATUS_CONNECTED

RECURSIVE Pow2(_)
Pow2(n) == IF n = 0 THEN 1 ELSE 2 * Pow2(n - 1)

\* C9: the backoff delay is min(2^k, 8) after k consecutive failed connect
\* attempts (1, 2, 4, 8, 8, ...), the k-th consecutive failure slept
\* min(2^(k-1), 8), the delay stays within 1..8, and it is 1 from a
\* successful connect on, as long as the thread holds that connection's socket.
C9_Backoff ==
  \A t \in Threads :
    /\ DELAY_FLOOR <= reconnect_delay[t] /\ reconnect_delay[t] <= DELAY_CEILING
    /\ reconnect_delay[t] = Min(Pow2(nfail[t]), DELAY_CEILING)
    /\ nfail[t] >= 1 => slept[t] = Min(Pow2(nfail[t] - 1), DELAY_CEILING)
    /\ sock[t] # "None" => reconnect_delay[t] = DELAY_FLOOR

\* C9 witness: five consecutive failures, the last sleep was 8 and the delay is 8.
C9_Witness ==
  \E t \in Threads : nfail[t] = 5 /\ slept[t] = DELAY_CEILING /\ reconnect_delay[t] = DELAY_CEILING

\* The status transitions the specification allows.
AllowedTransitions ==
  { <<STATUS_DISCONNECTED, STATUS_CONNECTING>>, <<STATUS_CONNECTING, STATUS_CONNECTED>>,
    <<STATUS_CONNECTING, STATUS_RECONNECTING>>, <<STATUS_CONNECTED, STATUS_RECONNECTING>>,
    <<STATUS_CONNECTED, STATUS_ERROR>>, <<STATUS_RECONNECTING, STATUS_CONNECTING>>,
    <<STATUS_ERROR, STATUS_CONNECTING>> }

\* C10 (as claimed): the status changes only along the allowed transitions,
\* or to DISCONNECTED.
C10_StatusTransitions ==
  [][_status' # _status =>
       (_status' = STATUS_DISCONNECTED \/ <<_status, _status'>> \in AllowedTransitions)]_vars

\* C11: a listener thread leaves its loop (line 163 and after) only when
\* stop() was called after it was spawned, and the status goes from another
\* value to DISCONNECTED only in a step of stop() (line 61) or in the last
\* step of a thread that stop() has signalled: no connect failure, peer
\* close, reset, decode failure or other error ends the loop.
C11_ExitOnlyOnStop ==
  /\ [](\A t \in Threads : pc[t] \in {"L163", "done"} => stopped[t])
  /\ [][(_status' = STATUS_DISCONNECTED /\ _status # STATUS_DISCONNECTED) =>
          (mpc = "L60" \/ \E t \in Threads : pc[t] = "L163" /\ stopped[t])]_vars

\* C11 witness: a thread that went through a failed connect attempt and a
\* backoff sleep has ended, after stop().
C11_Witness ==
  \E t \in Threads : pc[t] = "done" /\ stopped[t] /\ slept[t] > 0

\* The listener threads blocked in recv() on a connected socket.
Reading == {t \in Threads : pc[t] = "L116" /\ sock[t] = "open"}

\* C12 (as claimed): whatever start() and stop() calls were made, at most one
\* listener thread is reading a socket at any time.
C12_OneLoopLive == Cardinality(Reading) <= 1

\* C13: a stop() call returns, the join can always return whatever the
\* listener thread is doing, and at the return the thread reference is
\* dropped, running is false and the status is DISCONNECTED.
C13_StopReturns ==
  /\ (mpc \in {"L57", "L60"}) ~> (mpc = "idle")
  /\ [](mpc = "L57" => ENABLED stopJoin)
  /\ [][(mpc = "L60" /\ mpc' = "idle") =>
          (_status' = STATUS_DISCONNECTED /\ thread' = 0 /\ ~running')]_vars

\* C13 witness: stop() has returned while the thread it signalled is still
\* inside a connect attempt.
C13_Witness ==
  /\ mpc = "idle" /\ ~running /\ thread = 0 /\ _status = STATUS_DISCONNECTED
  /\ \E t \in Threads : pc[t] = "L74" /\ stopped[t]

\* C14 (as claimed): no call of stop() raises, whichever thread makes it and
\* whatever another stop() call is doing at the same time.
C14_StopNeverRaises == mpc # "raised" /\ opc # "raised"

\* C15 (as claimed): from the return of stop() until the next start(), that
\* is while running is false and the main thread is in no call, the status
\* reads DISCONNECTED.
C15_StoppedReadsDisconnected ==
  (~running /\ mpc = "idle") => _status = STATUS_DISCONNECTED

\* C16 (as claimed): a connection-aborted error during reception is handled
\* like a peer close or a reset: the thread never gets to the pause of line
\* 156, which follows the write of ERROR at line 154.
C16_AbortReconnectsAtOnce ==
  \A t \in Threads : e[t] = "ConnectionAbortedError" => pc[t] # "L156"

\* The program counters of the connect phase, lines 94 to 104.
Connecting == {"L94", "L97", "L98", "L99", "L73", "L74", "L78", "L85", "L103"}

\* C17: a read timeout changes neither the status nor the socket and the
\* thread goes back to the loop test, the error handler of line 153 being
\* entered only with an exception caught there; after any other error the thread
\* writes ERROR, pauses, and is in the connect phase only with the failed
\* socket closed; from the pause it gets to a new connect attempt unless
\* stop() was called, and the status does not stay ERROR.
C17_TimeoutSilentErrorRecovers ==
  /\ [][\A t \in Threads : (pc[t] = "L116" /\ pc'[t] = "L113") =>
            (_status' = _status /\ sock'[t] = "open")]_vars
  /\ [](\A t \in Threads : pc[t] = "L154" => e[t] # "")
  /\ [][\A t \in Threads : (pc[t] = "L154" /\ pc'[t] # "L154") =>
            (_status' = STATUS_ERROR /\ pc'[t] = "L156")]_vars
  /\ [](\A t \in Threads : pc[t] \in Connecting => sock[t] # "open")
  /\ \A t \in Threads : (pc[t] = "L156") ~> (pc[t] = "L74" \/ stopped[t])
  /\ (_status = STATUS_ERROR) ~> (_status # STATUS_ERROR)

\* C17 witness: after an error of recv() the status is ERROR and the thread,
\* not stopped, is in its pause with the socket still open.
C17_Witness ==
  \E t \in Threads :
    /\ pc[t] = "L156" /\ e[t] = "OSError" /\ _status = STATUS_ERROR
    /\ sock[t] = "open" /\ ~stopped[t]

\* C18: the rotation apply_rotation writes to a bone is the bone's
\* calibration offset composed on the left of the incoming rotation, and the
\* incoming rotation itself for a bone without an offset; when the offset is
\* the inverse of the incoming rotation the bone receives the identity.
C18_OffsetOnLeft ==
  (call.op = "apply" /\ Len(call.data) = 4) =>
     /\ rotation_quaternion[call.bone] =
          (IF call.bone \in DOMAIN CALIBRATION_OFFSETS
             THEN matmul(CALIBRATION_OFFSETS[call.bone], call.data)
             ELSE call.data)
     /\ (call.bone \in DOMAIN CALIBRATION_OFFSETS
           /\ CALIBRATION_OFFSETS[call.bone] = inverted(call.data))
          => rotation_quaternion[call.bone] = Identity

\* C18 witness: the bone was calibrated in a pose that is not the identity,
\* the same rotation came in, and the bone now has the identity.
C18_Witness ==
  /\ call.op = "apply" /\ call.data = <<0, 1, 0, 0>>
  /\ call.bone \in DOMAIN CALIBRATION_OFFSETS
  /\ CALIBRATION_OFFSETS[call.bone] = <<0, -1, 0, 0>>
  /\ rotation_quaternion[call.bone] = Identity

\* C19: a calibration that directly follows a calibration, with nothing
\* done to the scene in between, leaves the store as the first left it.
C19_CalibrateIdempotent ==
  [][(call.op = "calibrate" /\ call'.op = "calibrate" /\ call'.rep) =>
       CALIBRATION_OFFSETS' = CALIBRATION_OFFSETS]_vars

\* C19 witness: the second of two successful calibrations in a row has
\* returned, and the store holds an offset that is not the identity.
C19_Witness ==
  /\ call.op = "calibrate" /\ call.rep /\ call.ret = "True"
  /\ \E b \in DOMAIN CALIBRATION_OFFSETS : CALIBRATION_OFFSETS[b] # Identity

\* C20 (as claimed): a calibration that fails (the operator is cancelled,
\* calibrate_pose returns False or mode_set raises) leaves the store as it
\* was before the call.
C20_FailedCalibrationKeepsStore ==
  [][(call'.op = "calibrate" /\ call'.ret \in {"CANCELLED", "False", "RuntimeError"}) =>
       CALIBRATION_OFFSETS' = CALIBRATION_OFFSETS]_vars

\* C21: after every successful calibration the store has an entry for
\* exactly the bone names that the current bone map gives and that exist in
\* the rig, each the inverse of that bone's rotation (the product of the
\* entry and the rotation is the identity); an entry of an earlier
\* calibration for a bone that is no longer mapped is gone.
C21_StoreIsMappedBones ==
  (call.op = "calibrate" /\ call.ret = "True") =>
    /\ DOMAIN CALIBRATION_OFFSETS =
         {b \in DOMAIN rotation_quaternion : \E j \in DOMAIN bone_map : bone_map[j] = b}
    /\ \A b \in DOMAIN CALIBRATION_OFFSETS :
         matmul(CALIBRATION_OFFSETS[b], rotation_quaternion[b]) = Identity

\* A successful calibration that found an entry for a bone no longer mapped
C21_Witness ==
  /\ call.op = "calibrate" /\ call.ret = "True"
  /\ \E b \in call.before : \A j \in DOMAIN bone_map : bone_map[j] # b

\* apply_mocap_data was the last call and the armature was ready for it, and
\* a joint entry that is an object with a rotation of four numbers
Applied ==
  /\ call.op = "apply_mocap_data"
  /\ target_armature.type = "ARMATURE" /\ target_armature.mode = "POSE"
WellFormed(entry) ==
  entry.t = "object" /\ entry.rotation_wzxy.t = "list" /\ Len(entry.rotation_wzxy.v) = 4

\* C22: within one call of apply_mocap_data a malformed joint never keeps
\* the other bones from being applied: every joint of the frame that the
\* mode selects, that is mapped to a bone of the rig and that has a
\* well-formed rotation has its bone rotation written.
C22_OtherBonesStillApplied ==
  Applied =>
    \A j \in DOMAIN call.frame.joints \cap DOMAIN bone_map :
      ( /\ mocap_mode = "WHOLE_BODY" \/ j \in HandJoints
        /\ bone_map[j] \in DOMAIN rotation_quaternion
        /\ WellFormed(call.frame.joints[j]) )
      => bone_map[j] \in call.rotw

\* C23: when the target is no armature or cannot be put into pose mode,
\* apply_mocap_data tells its caller: what it returns differs from the None
\* of a successful call, or the operator reports the condition.
C23_FailureIsReported ==
  ( /\ call.op = "apply_mocap_data"
    /\ ~(target_armature.type = "ARMATURE" /\ target_armature.mode = "POSE") )
  => (call.ret # "None" \/ call.report # "")

\* C24: apply_mocap_data writes a rotation or a location only while the
\* target is an armature in pose mode; when the target is no armature, or
\* is not in pose mode and mode_set fails, the call changes no rotation and
\* no location, on the landmark path and on the rotation path.
C24_WritesOnlyInPoseMode ==
  [][ call'.op = "apply_mocap_data" =>
        /\ (call'.lm # {} \/ call'.rotw # {} \/ call'.locw)
              => (target_armature'.type = "ARMATURE" /\ target_armature'.mode = "POSE")
        /\ ~( /\ target_armature.type = "ARMATURE"
              /\ target_armature.mode = "POSE" \/ target_armature.posable )
              => /\ call'.lm = {} /\ call'.rotw = {} /\ ~call'.locw
                 /\ UNCHANGED <<rotation_quaternion, location>> ]_vars

\* A call on a target that is not ready, with landmarks and joints in the frame
C24_Witness ==
  /\ call.op = "apply_mocap_data"
  /\ target_armature.mode # "POSE"
  /\ call.frame.mediapipe.present
  /\ DOMAIN call.frame.joints # {}

\* C25: the mode of the frame never changes what a call writes: with any
\* other mode in the frame the call leaves the same rotations and locations.
C25_FrameModeIgnored ==
  [][ call'.op = "apply_mocap_data" =>
        \A m \in FrameModes :
          LET r == apply_mocap_data(target_armature, [call'.frame EXCEPT !.mode = m])
          IN rotation_quaternion' = r.rot /\ location' = r.loc ]_vars

\* A frame that says HANDS_ONLY, applied under WHOLE_BODY, sets the spine
C25_Witness ==
  /\ Applied
  /\ call.frame.mode = "HANDS_ONLY" /\ mocap_mode = "WHOLE_BODY"
  /\ "mixamorig:Spine" \in call.rotw

\* C26: under HANDS_ONLY the rotation path writes only bones mapped from a
\* joint of the frame whose name contains a hand keyword, and no location;
\* under WHOLE_BODY it writes the location of the root (when the frame has
\* one of three numbers and Hips is mapped) and the rotation of every
\* mapped joint of the frame that has a well-formed rotation.
C26_ModeSelectsBones ==
  Applied =>
    /\ mocap_mode = "HANDS_ONLY" =>
         /\ ~call.locw
         /\ \A b \in call.rotw :
              \E j \in DOMAIN call.frame.joints \cap DOMAIN bone_map :
                bone_map[j] = b /\ \E f \in HAND_FILTER : contains(Spell(j), f)
    /\ mocap_mode = "WHOLE_BODY" =>
         /\ \A j \in DOMAIN call.frame.joints \cap DOMAIN bone_map :
              (bone_map[j] \in DOMAIN rotation_quaternion /\ WellFormed(call.frame.joints[j]))
              => bone_map[j] \in call.rotw
         /\ ( /\ "Hips" \in DOMAIN call.frame.joints \cap DOMAIN bone_map
              /\ call.frame.joints["Hips"].t = "object"
              /\ call.frame.joints["Hips"].location.t = "list"
              /\ Len(call.frame.joints["Hips"].location.v) = 3 )
              => call.locw

\* C27: every rotation the rotation path writes has norm 1, and a rotation
\* of norm 0 in the frame leaves the bone as it was.
C27_WrittenRotationsAreUnit ==
  Applied =>
    \A b \in call.rotw :
      LET q == rotation_quaternion[b]
      IN q[1] * q[1] + q[2] * q[2] + q[3] * q[3] + q[4] * q[4] = 1

\* C28: a landmark list of at least 17 points sets the bones of the
\* shoulder-elbow and elbow-wrist segments; a shorter list sets no bone; in
\* both cases the rotation path of the frame runs.
C28_SeventeenLandmarksSuffice ==
  (Applied /\ call.frame.mediapipe.present) =>
    /\ Len(call.frame.mediapipe.pose) >= 17
         => {bone_map["LeftShoulder"], bone_map["LeftElbow"]} \subseteq call.lm
    /\ Len(call.frame.mediapipe.pose) < 17 => call.lm = {}
    /\ mocap_mode = "WHOLE_BODY" =>
         \A j \in DOMAIN call.frame.joints : bone_map[j] \in call.rotw

\* C29: the smoothed landmarks persist from frame to frame: in a frame
\* whose landmarks set a bone, the value used for an arm landmark is 0.4
\* times the value used for it in the frame before plus 0.6 times the raw
\* value (the raw value in the first frame).
C29_SmoothingPersists ==
  (call.op = "apply_mocap_data" /\ call.lm # {}) =>
    \A i \in 1..6, k \in 1..3 :
      LET raw == lm_to_vec(at(call.frame.mediapipe.pose, 10 + i))
      IN IF call.seen = <<>>
           THEN call.used[i][k] = raw[k]
           ELSE 10 * call.used[i][k] = 4 * call.seen[i][k] + 6 * raw[k]

\* C30: when the landmark path runs to its end, the rotations it leaves on
\* the upper arm and the forearm are those the two-bone solver derives from
\* shoulder, wrist and the bone lengths, not those of the raw directions
\* shoulder-elbow and elbow-wrist.
C30_ArmsAreSolvedByIK ==
  [][ ( /\ call'.op = "apply_mocap_data"
        /\ target_armature'.type = "ARMATURE" /\ target_armature'.mode = "POSE"
        /\ call'.used # <<>> /\ ~call'.lmraised )
      => LET upper_name == bone_map["LeftShoulder"]
             lower_name == bone_map["LeftElbow"]
             ik == two_bone_ik([rot |-> rotation_quaternion, lm |-> {}],
                               call'.used[1], call'.used[3], call'.used[5],
                               upper_name, lower_name)
         IN /\ call'.lmrot[upper_name] = ik.rot[upper_name]
            /\ call'.lmrot[lower_name] = ik.rot[lower_name] ]_vars

C32_DirectionToRotation ==
  (call.op = "set_bone_direction" /\ call.bone \in DOMAIN rotation_quaternion) =>
    LET d == vsub(call.target, call.source)
        offset_q == IF call.bone \in DOMAIN CALIBRATION_OFFSETS
                      THEN CALIBRATION_OFFSETS[call.bone]
                      ELSE Identity
    IN /\ d = <<0, 0, 0>> => rotation_quaternion = call.before
       /\ (d # <<0, 0, 0>> /\ d[1] = 0 /\ d[3] = 0) =>
            rotation_quaternion[call.bone] = offset_q
       /\ (d[1] # 0 \/ d[3] # 0) =>
            rotation_quaternion[call.bone] = <<offset_q, normalized(d)>>
       /\ \A b \in DOMAIN rotation_quaternion \ {call.bone} :
            rotation_quaternion[b] = call.before[b]

\* A bone with an offset is pointed against the axis: the offset is written
C32_Witness ==
  /\ call.op = "set_bone_direction"
  /\ call.bone \in DOMAIN CALIBRATION_OFFSETS
  /\ call.source = <<0, 0, 0>> /\ call.target = <<0, -2, 0>>
  /\ rotation_quaternion[call.bone] = CALIBRATION_OFFSETS[call.bone]
  /\ call.before[call.bone] # rotation_quaternion[call.bone]

\* C35: a listener that is about to open a socket, or that has left its
\* loop, holds no socket that is still open.
C35_SocketsAreClosed ==
  \A t \in Threads : pc[t] \in {"L94", "L163", "done"} => sock[t] # "open"

\* C33: after a timer tick of the drive loop data_active is true only if the
\* status read on the tick was CONNECTED and a frame was taken and applied on
\* it, and it is false when the status was not CONNECTED or no frame was
\* pending.
C33_FreshnessRecomputed ==
  call.op = "modal" /\ tpc[1] = "idle" =>
    /\ data_active => call.status = STATUS_CONNECTED /\ call.frame # None /\ call.applied
    /\ call.status # STATUS_CONNECTED \/ call.frame = None => ~data_active

\* C34: the drive loop begins to take from the handoff only on a tick that
\* reads CONNECTED; a pending frame leaves the handoff only when the drive
\* loop takes it or a listener evicts it for a newer one, whatever happens to
\* the connection; and a tick during which no listener was enqueuing hands
\* on the frame put last since the call before, on whichever connection it
\* was put.
C34_PendingSurvivesReconnect ==
  [][/\ mpc = "idle" /\ mpc' = "L173" => _status = STATUS_CONNECTED
     /\ data_queue # <<>> /\ (data_queue' = <<>> \/ Head(data_queue') # Head(data_queue)) =>
          \/ mpc = "L173" /\ latest' = Head(data_queue)
          \/ \E t \in Threads : pc[t] = "L138" /\ pc'[t] = "L139"
     /\ tpc[1] = "L38" /\ tpc'[1] = "idle" /\ lastCall.clean /\ lastCall.puts > 0 =>
          call'.frame = lastCall.last /\ call'.frame # None]_vars

\* A tick that read CONNECTED on a connection that had received nothing yet
\* has taken a frame, and no listener was enqueuing during it: the frame was
\* put on an earlier connection and was pending when that one ended
C34_Witness ==
  /\ tpc[1] = "L38" /\ mpc = "idle"
  /\ call.op = "modal" /\ call.status = STATUS_CONNECTED /\ call.received = <<>>
  /\ lastCall.ret # None /\ lastCall.clean

\* C36: a handler that takes from the handoff on a timer event is the
\* handler installed with the receiver in use, and no other handler is
\* installed beside it.
C36_OneDriveLoop ==
  tpc[1] = "L38" => tpc[2] = MOCAP_RECEIVER /\ handlers = {tpc[2]}
====
